---- MODULE Spec2Model ----
(***************************************************************************)
(* A model of the rpm_exo position-environment servers:                    *)
(*   - src/position_server: parameter validation and cache key, the        *)
(*     thread-pool orchestrator, the process-wide cache, the GET/POST      *)
(*     handler and the warmup scheduler;                                   *)
(*   - src/cache, src/handlers, src/validation, src/storage: the single    *)
(*     endpoint /pos_env with its TTL-partitioned RequestCache.            *)
(* Pure functions are operators; each has a small specification that draws *)
(* its inputs in Init and applies it in one action.                        *)
(***************************************************************************)
EXTENDS Integers, Sequences, FiniteSets, TLC

VARIABLES
    call,       \* harness of the pure functions: the function applied and its inputs
    ret,        \* harness of the pure functions: what the function returned
    caches,     \* RequestCache._caches: ttl -> TTLCache
    clock,      \* seconds on the TTLCache timer
    written,    \* history: <<key, ttl>> -> when and what set() last wrote there
    main,           \* position server: where server.main() is
    server_status,  \* scheduler._server_status
    warmup_configs, \* config.WARMUP_CONFIGS
    warmup_status,  \* scheduler._warmup_status
    worker,         \* per warmup job: where its _warmup_worker thread is
    request,        \* per request slot: the handler coroutine and its response
    orch,           \* per caller: its fetch_all_sections call
    executor,       \* orchestrator.executor: work queue, running workers (and since when),
                    \* finished futures
    cache,          \* cache._cache
    runs,           \* number of orchestration runs started so far
    broken,         \* the sections whose data source is down
    fetcher_calls,  \* history: per caller and section, fetcher invocations of its current call
    handler,        \* /pos_env: per request slot, the PosEnvHandler coroutine and its response
    store,          \* /pos_env: the request contexts FileRequestStore.save has written
    failing,        \* /pos_env: the sections whose execute raises
    status_query    \* position server: the StatusHandler.get call and what it wrote

pureVars == <<call, ret>>
rcVars == <<caches, clock, written>>
psVars == <<main, server_status, warmup_configs, warmup_status, worker, request, orch,
            executor, cache, runs, broken, fetcher_calls>>
peVars == <<handler, store, failing>>
sqVars == <<status_query>>
vars == <<call, ret, caches, clock, written, main, server_status, warmup_configs,
          warmup_status, worker, request, orch, executor, cache, runs, broken, fetcher_calls,
          handler, store, failing, status_query>>

(***************************************************************************)
(* Bounds of the model.                                                    *)
(***************************************************************************)
MaxBooks == 2      \* longest books list drawn as an input
MaxTicks == 2      \* the timer advances at most this many times
MaxRuns == 3       \* orchestration runs started in one behaviour
max_workers == 2   \* ThreadPoolExecutor(max_workers=10), scaled so that few callers saturate it

NoCall == [fn |-> "none"]
NoRet == [fn |-> "none"]

(***************************************************************************)
(* Strings.  Python orders str by code point; the model's book names are   *)
(* ordered as Python orders them: "CUPS" < "EXO" < "YCSO".  A raw book may *)
(* carry surrounding blanks, which str.strip() removes.                    *)
(***************************************************************************)
Books == {"CUPS", "EXO", "YCSO"}
RawBooks == {"CUPS", "YCSO", " CUPS", ""}

StrRank(s) ==
    CASE s = "CUPS" -> 1
      [] s = "EXO"  -> 2
      [] s = "YCSO" -> 3
      [] OTHER      -> 0

StrLeq(a, b) == StrRank(a) <= StrRank(b)

strip(b) == IF b = " CUPS" THEN "CUPS" ELSE b

\* sorted(list): ascending, duplicates kept (insertion sort).
RECURSIVE InsertSorted(_, _)
InsertSorted(x, s) ==
    IF s = <<>> THEN <<x>>
    ELSE IF StrLeq(x, Head(s)) THEN <<x>> \o s
    ELSE <<Head(s)>> \o InsertSorted(x, Tail(s))

RECURSIVE sorted(_)
sorted(s) == IF s = <<>> THEN <<>> ELSE InsertSorted(Head(s), sorted(Tail(s)))

SeqsUpTo(S, n) == UNION {[1..k -> S] : k \in 0..n}

Range(s) == {s[i] : i \in DOMAIN s}

(***************************************************************************)
(* position_server/params.py                                               *)
(***************************************************************************)
DATE_FORMAT == {"20251216", "20251215", "20250101", "20241231"}  \* strings strptime(.., "%Y%m%d") accepts
valid_times == {"SOD", "EOD", "LIVE"}

BaseParams(env_date, pos_date, books, time_of_day) ==
    [env_date |-> env_date, pos_date |-> pos_date, books |-> books,
     time_of_day |-> time_of_day]

NoParams == BaseParams("", "", <<>>, "")

\* _validate: the BaseParams built, or the ValueError raised (a missing value is "").
_validate(env_date, pos_date, books, time_of_day) ==
    IF env_date = "" THEN [ok |-> FALSE, params |-> NoParams, error |-> "Missing required parameter: env_date"]
    ELSE IF env_date \notin DATE_FORMAT THEN [ok |-> FALSE, params |-> NoParams, error |-> "env_date must be %Y%m%d format"]
    ELSE IF pos_date = "" THEN [ok |-> FALSE, params |-> NoParams, error |-> "Missing required parameter: pos_date"]
    ELSE IF pos_date \notin DATE_FORMAT THEN [ok |-> FALSE, params |-> NoParams, error |-> "pos_date must be %Y%m%d format"]
    ELSE IF books = <<>> THEN [ok |-> FALSE, params |-> NoParams, error |-> "Missing required parameter: books"]
    ELSE IF \E i \in DOMAIN books : strip(books[i]) = "" THEN [ok |-> FALSE, params |-> NoParams, error |-> "books must be non-empty strings"]
    ELSE IF time_of_day = "" THEN [ok |-> FALSE, params |-> NoParams, error |-> "Missing required parameter: time_of_day"]
    ELSE IF time_of_day \notin valid_times THEN [ok |-> FALSE, params |-> NoParams, error |-> "time_of_day must be one of SOD, EOD, LIVE"]
    ELSE [ok |-> TRUE,
          params |-> BaseParams(env_date, pos_date, [i \in DOMAIN books |-> strip(books[i])], time_of_day),
          error |-> ""]

\* build_from_dict / extract_from_get after the transport has split the fields.
build_from_dict(d) == _validate(d.env_date, d.pos_date, d.books, d.time_of_day)

\* A mutant of to_cache_key: the books are not sorted.
to_cache_key_unsorted(p) == <<p.env_date, p.pos_date, p.books, p.time_of_day>>

\* BaseParams.to_cache_key
to_cache_key(p) == <<p.env_date, p.pos_date, sorted(p.books), p.time_of_day>>

(***************************************************************************)
(* cache/cache.py: RequestCache, a dict of cachetools.TTLCache, one per    *)
(* ttl value.  A TTLCache keeps, per key, the value and the instant it     *)
(* expires (timer() + ttl at the write); a read returns the value only     *)
(* while timer() < expires; a write first drops the expired entries.  The  *)
(* model's keys are fewer than maxsize (1000), so nothing is evicted.      *)
(***************************************************************************)
DEFAULT_CACHE_TTL == 60
None == [none |-> TRUE]
EmptyMap == [x \in {} |-> None]

RcIdle ==
    /\ caches = EmptyMap
    /\ clock = 0
    /\ written = EmptyMap

\* The position server is not running.
PsIdle ==
    /\ main = [pc |-> "off", next |-> 0]
    /\ server_status = "starting"
    /\ warmup_configs = <<>>
    /\ warmup_status = EmptyMap
    /\ worker = EmptyMap
    /\ request = EmptyMap
    /\ orch = EmptyMap
    /\ executor = [queue |-> <<>>, running |-> {}, futures |-> EmptyMap, since |-> EmptyMap]
    /\ cache = EmptyMap
    /\ runs = 0
    /\ broken = {}
    /\ fetcher_calls = EmptyMap

\* No /pos_env request has been received.
PeIdle ==
    /\ handler = EmptyMap
    /\ store = <<>>
    /\ failing = {}

\* No /status request has been received.
NoQuery == [pc |-> "idle", response |-> None, returned |-> EmptyMap, body |-> None]

SqIdle == status_query = NoQuery

\* TTLCache(maxsize, ttl)
TTLCache(ttl) == [ttl |-> ttl, items |-> EmptyMap]

\* TTLCache.get(key)
TTLCache_get(c, key, now) ==
    IF key \in DOMAIN c.items /\ now < c.items[key].expires
    THEN c.items[key].value
    ELSE None

\* TTLCache.__setitem__(key, value)
TTLCache_setitem(c, key, value, now) ==
    LET live == {k \in DOMAIN c.items : now < c.items[k].expires}
    IN  [c EXCEPT !.items =
            [k \in live \cup {key} |->
                IF k = key THEN [value |-> value, expires |-> now + c.ttl]
                ELSE c.items[k]]]

\* A mutant of _get_cache: every ttl shares the partition of the default ttl.
get_cache_shared(cs, ttl) ==
    [caches |-> IF DEFAULT_CACHE_TTL \in DOMAIN cs THEN cs
                ELSE cs @@ (DEFAULT_CACHE_TTL :> TTLCache(DEFAULT_CACHE_TTL)),
     slot |-> DEFAULT_CACHE_TTL]

\* RequestCache._get_cache: the dict after the call, and the slot of the cache returned.
get_cache(cs, ttl) ==
    [caches |-> IF ttl \in DOMAIN cs THEN cs ELSE cs @@ (ttl :> TTLCache(ttl)),
     slot |-> ttl]

\* A mutant of RequestCache.get: the ttl argument is ignored.
RequestCache_get_default(cs, key, ttl, now) ==
    LET g == get_cache(cs, DEFAULT_CACHE_TTL)
    IN  [caches |-> g.caches, value |-> TTLCache_get(g.caches[g.slot], key, now)]

\* RequestCache.get: the dict after the call, and the value returned.
RequestCache_get(cs, key, ttl, now) ==
    LET g == get_cache(cs, ttl)
    IN  [caches |-> g.caches, value |-> TTLCache_get(g.caches[g.slot], key, now)]

\* RequestCache.set: the dict after the call.
RequestCache_set(cs, key, value, ttl, now) ==
    LET g == get_cache(cs, ttl)
    IN  [g.caches EXCEPT ![g.slot] = TTLCache_setitem(g.caches[g.slot], key, value, now)]

(***************************************************************************)
(* The RequestCache specification: any client calls get, set and clear     *)
(* while the timer advances.                                               *)
(***************************************************************************)
Keys == {"k1", "k2"}
Values == {[payload |-> "a"], [payload |-> "b"]}
TTLs == {30, 60}
Steps == {30}

InitCache ==
    /\ call = NoCall
    /\ ret = NoRet
    /\ RcIdle
    /\ PsIdle
    /\ PeIdle
    /\ SqIdle

CacheSet(key, value, ttl) ==
    /\ caches' = RequestCache_set(caches, key, value, ttl, clock)
    /\ written' = [p \in DOMAIN written \cup {<<key, ttl>>} |->
                      IF p = <<key, ttl>> THEN [at |-> clock, value |-> value]
                      ELSE written[p]]
    /\ UNCHANGED <<clock, pureVars, psVars, peVars, sqVars>>

CacheGet(key, ttl) ==
    /\ caches' = RequestCache_get(caches, key, ttl, clock).caches
    /\ UNCHANGED <<clock, written, pureVars, psVars, peVars, sqVars>>

\* RequestCache.clear
CacheClear ==
    /\ caches' = EmptyMap
    /\ written' = EmptyMap
    /\ UNCHANGED <<clock, pureVars, psVars, peVars, sqVars>>

Tick(d) ==
    /\ clock + d <= MaxTicks * 30
    /\ clock' = clock + d
    /\ UNCHANGED <<caches, written, pureVars, psVars, peVars, sqVars>>

NextCache ==
    \/ \E k \in Keys, v \in Values, t \in TTLs : CacheSet(k, v, t)
    \/ \E k \in Keys, t \in TTLs : CacheGet(k, t)
    \/ CacheClear
    \/ \E d \in Steps : Tick(d)

SpecCache == InitCache /\ [][NextCache]_vars

\* What get(key, ttl) returns in the current state.
Lookup(key, ttl) == RequestCache_get(caches, key, ttl, clock).value

\* C7: a get(key, ttl) that immediately follows set(key, value, ttl) returns
\* value; once ttl seconds have elapsed since the last set of the key under
\* ttl, get(key, ttl) returns absent.
C7_SetGetThenExpire ==
    \A k \in Keys, t \in TTLs :
        <<k, t>> \in DOMAIN written =>
            /\ clock = written[<<k, t>>].at => Lookup(k, t) = written[<<k, t>>].value
            /\ clock - written[<<k, t>>].at >= t => Lookup(k, t) = None

\* A set under <<k, t>> happens in this step.
SetStep(k, t) ==
    /\ <<k, t>> \in DOMAIN written'
    /\ <<k, t>> \in DOMAIN written => written'[<<k, t>>] # written[<<k, t>>]

\* C7 witness: get returns absent for an entry whose ttl has elapsed, while
\* the same key written under a longer ttl at the same instant is still served.
C7_Witness ==
    \E k \in Keys, t1 \in TTLs, t2 \in TTLs :
        /\ <<k, t1>> \in DOMAIN written /\ <<k, t2>> \in DOMAIN written
        /\ written[<<k, t1>>].at = written[<<k, t2>>].at
        /\ clock - written[<<k, t1>>].at >= t1
        /\ clock - written[<<k, t2>>].at < t2
        /\ Lookup(k, t1) = None
        /\ Lookup(k, t2) = written[<<k, t2>>].value

\* C8: a set under one ttl never changes what get returns under another ttl,
\* and a key written under two ttl values has two entries, each served until
\* its own ttl has elapsed since its own last write.
C8_PartitionsIndependent ==
    /\ [][\A k \in Keys, t1 \in TTLs :
            SetStep(k, t1) =>
                \A k2 \in Keys, t2 \in TTLs \ {t1} :
                    RequestCache_get(caches', k2, t2, clock').value = Lookup(k2, t2)]_vars
    /\ [](\A k \in Keys, t1 \in TTLs, t2 \in TTLs :
            (t1 # t2 /\ <<k, t1>> \in DOMAIN written /\ <<k, t2>> \in DOMAIN written) =>
                /\ Lookup(k, t1) = IF clock - written[<<k, t1>>].at < t1
                                   THEN written[<<k, t1>>].value ELSE None
                /\ Lookup(k, t2) = IF clock - written[<<k, t2>>].at < t2
                                   THEN written[<<k, t2>>].value ELSE None)

\* C8 witness: one key holds different live values, written at different
\* instants, under two ttl values.
C8_Witness ==
    \E k \in Keys, t1 \in TTLs, t2 \in TTLs :
        /\ t1 # t2
        /\ <<k, t1>> \in DOMAIN written /\ <<k, t2>> \in DOMAIN written
        /\ Lookup(k, t1) # None /\ Lookup(k, t2) # None
        /\ Lookup(k, t1) # Lookup(k, t2)
        /\ written[<<k, t1>>].at # written[<<k, t2>>].at

(***************************************************************************)
(* Inputs of the cache-key specification: a raw parameter set, and a       *)
(* second one that takes its own books list and differs from the first in  *)
(* at most one other field.                                                *)
(***************************************************************************)
RawEnvDates == {"20251216", "20250101", "2025-12-16"}
RawPosDates == {"20251215", "20241231"}
RawTimes == {"SOD", "LIVE", "Live"}
RawBookLists == SeqsUpTo(RawBooks, MaxBooks)

RawParamSets ==
    {BaseParams(e, p, b, t) : e \in RawEnvDates, p \in RawPosDates,
                              b \in RawBookLists, t \in RawTimes}

OtherValue(field, v) ==
    CASE field = "env_date" -> IF v = "20251216" THEN "20250101" ELSE "20251216"
      [] field = "pos_date" -> IF v = "20251215" THEN "20241231" ELSE "20251215"
      [] field = "time_of_day" -> IF v = "SOD" THEN "LIVE" ELSE "SOD"
      [] OTHER -> v

Vary(d, field, books) ==
    BaseParams(IF field = "env_date" THEN OtherValue(field, d.env_date) ELSE d.env_date,
               IF field = "pos_date" THEN OtherValue(field, d.pos_date) ELSE d.pos_date,
               books,
               IF field = "time_of_day" THEN OtherValue(field, d.time_of_day) ELSE d.time_of_day)

InitKey ==
    /\ \E d1 \in RawParamSets, b2 \in RawBookLists,
          f \in {"none", "env_date", "pos_date", "time_of_day"} :
          call = [fn |-> "to_cache_key", d1 |-> d1, d2 |-> Vary(d1, f, b2)]
    /\ ret = NoRet
    /\ RcIdle
    /\ PsIdle
    /\ PeIdle
    /\ SqIdle

\* Both parameter sets are validated; the key of each one that validation accepts is taken.
BuildKeys ==
    /\ call.fn = "to_cache_key"
    /\ ret = NoRet
    /\ LET v1 == build_from_dict(call.d1)
           v2 == build_from_dict(call.d2)
       IN  ret' = [fn |-> "to_cache_key", v1 |-> v1, v2 |-> v2,
                   k1 |-> IF v1.ok THEN to_cache_key(v1.params) ELSE <<>>,
                   k2 |-> IF v2.ok THEN to_cache_key(v2.params) ELSE <<>>]
    /\ UNCHANGED <<call, rcVars, psVars, peVars, sqVars>>

NextKey == BuildKeys

SpecKey == InitKey /\ [][NextKey]_vars

\* The number of occurrences of x in s.
Count(s, x) == Cardinality({i \in DOMAIN s : s[i] = x})

\* p2 is p1 with the books list in another order.
EqualExceptBookOrder(p1, p2) ==
    /\ p1.env_date = p2.env_date
    /\ p1.pos_date = p2.pos_date
    /\ p1.time_of_day = p2.time_of_day
    /\ Len(p1.books) = Len(p2.books)
    /\ \A b \in Range(p1.books) \cup Range(p2.books) : Count(p1.books, b) = Count(p2.books, b)

\* C2: two validated parameter sets that are equal except for the order of
\* the books list have the same cache key.
C2_KeyIgnoresBookOrder ==
    (ret.fn = "to_cache_key" /\ ret.v1.ok /\ ret.v2.ok
        /\ EqualExceptBookOrder(ret.v1.params, ret.v2.params))
    => ret.k1 = ret.k2

\* C2 witness: two validated sets whose books lists differ in order have been keyed.
C2_Witness ==
    /\ ret.fn = "to_cache_key" /\ ret.v1.ok /\ ret.v2.ok
    /\ EqualExceptBookOrder(ret.v1.params, ret.v2.params)
    /\ ret.v1.params.books # ret.v2.params.books
    /\ ret.k1 = ret.k2

(***************************************************************************)
(* position_server/sections: the fetchers and run_section.                 *)
(* What a Python call does is an outcome: it returns a value or raises an  *)
(* Exception.  The section parameters of one section are one of four       *)
(* shapes: the empty mapping, a mapping with a well-typed value for the    *)
(* section's option, a mapping with an ill-typed value for it, or a value  *)
(* that is no mapping at all (the ** of the call then raises TypeError).   *)
(***************************************************************************)
Sections == <<"futures", "bonds">>
SectionNames == Range(Sections)
SectionParamShapes == {"empty", "overrides", "wrong_type", "not_a_mapping"}

Returns(v) == [raised |-> FALSE, value |-> v, exc |-> ""]
Raises(e) == [raised |-> TRUE, value |-> None, exc |-> e]

\* The placeholder payload of get_futures and get_bonds.
Placeholder(params, option) ==
    [placeholder |-> TRUE, env_date |-> params.env_date, pos_date |-> params.pos_date,
     books |-> params.books, time_of_day |-> params.time_of_day, option |-> option]

\* fetcher_fn(params=params, **section_params) for get_futures
get_futures(params, section_params) ==
    CASE section_params = "not_a_mapping" -> Raises("TypeError: argument after ** must be a mapping")
      [] section_params = "wrong_type" -> Raises("ValueError: live_price_overrides must be dict")
      [] OTHER -> Returns(Placeholder(params, section_params))

\* fetcher_fn(params=params, **section_params) for get_bonds
get_bonds(params, section_params) ==
    CASE section_params = "not_a_mapping" -> Raises("TypeError: argument after ** must be a mapping")
      [] section_params = "wrong_type" -> Raises("ValueError: exclude_isins must be list")
      [] OTHER -> Returns(Placeholder(params, section_params))

\* A fetcher whose data source is down: it raises whatever it is given.
always_raises(params, section_params) == Raises("RuntimeError: data source unavailable")

Fetchers == {"get_futures", "get_bonds", "always_raises"}

\* The call fetcher_fn(params=params, **section_params) of run_section.
CallFetcher(fetcher_fn, params, section_params) ==
    CASE fetcher_fn = "get_futures" -> get_futures(params, section_params)
      [] fetcher_fn = "get_bonds" -> get_bonds(params, section_params)
      [] OTHER -> always_raises(params, section_params)

\* traceback.format_exc()
format_exc(exc) ==
    CASE exc = "TypeError: argument after ** must be a mapping" -> "Traceback (most recent call last): TypeError"
      [] exc = "ValueError: live_price_overrides must be dict" -> "Traceback (most recent call last): ValueError live_price_overrides"
      [] exc = "ValueError: exclude_isins must be list" -> "Traceback (most recent call last): ValueError exclude_isins"
      [] exc = "ValidationError: Invalid common parameters" -> "Traceback (most recent call last): ValidationError common"
      [] exc = "ValidationError: Invalid section parameters" -> "Traceback (most recent call last): ValidationError section"
      [] exc = "KeyError: Unknown section" -> "Traceback (most recent call last): KeyError"
      [] OTHER -> "Traceback (most recent call last): RuntimeError"

\* datetime.now(timezone.utc).isoformat() at instant t
isoformat(t) == [utc |-> t]

\* A mutant of run_section: the fetcher's exception is not caught.
run_section_uncaught(fetcher_fn, params, section_params, timeout, start, took) ==
    LET f == CallFetcher(fetcher_fn, params, section_params)
    IN  IF ~f.raised
        THEN Returns([data |-> f.value,
                      metadata |-> [last_updated |-> isoformat(start + took), status |-> "ok",
                                    refresh_duration_ms |-> took],
                      error_stack |-> ""])
        ELSE Raises(f.exc)

\* A mutant of run_section: a fetcher that took longer than the budget is
\* reported as an error.
run_section_enforcing(fetcher_fn, params, section_params, timeout, start, took) ==
    LET f == CallFetcher(fetcher_fn, params, section_params)
    IN  IF ~f.raised /\ took <= timeout * 1000
        THEN Returns([data |-> f.value,
                      metadata |-> [last_updated |-> isoformat(start + took), status |-> "ok",
                                    refresh_duration_ms |-> took],
                      error_stack |-> ""])
        ELSE Returns([data |-> None,
                      metadata |-> [last_updated |-> None, status |-> "error",
                                    refresh_duration_ms |-> took],
                      error_stack |-> format_exc(f.exc)])

\* run_section: started at instant start, the fetcher taking took milliseconds.
run_section(fetcher_fn, params, section_params, timeout, start, took) ==
    LET f == CallFetcher(fetcher_fn, params, section_params)
    IN  IF ~f.raised
        THEN Returns([data |-> f.value,
                      metadata |-> [last_updated |-> isoformat(start + took), status |-> "ok",
                                    refresh_duration_ms |-> took],
                      error_stack |-> ""])
        ELSE Returns([data |-> None,
                      metadata |-> [last_updated |-> None, status |-> "error",
                                    refresh_duration_ms |-> took],
                      error_stack |-> format_exc(f.exc)])

(***************************************************************************)
(* The run_section specification: one call on drawn inputs.                *)
(***************************************************************************)
TIMEOUTS == {60}
TimeoutBudgets == TIMEOUTS \cup {0, 1}
StartInstants == {1, 2}
FetchTimes == {0, 7}

ParamSets ==
    {BaseParams("20251216", "20251215", <<"CUPS", "YCSO">>, "SOD"),
     BaseParams("20251216", "20251215", <<"YCSO", "CUPS">>, "SOD"),
     BaseParams("20251216", "20251215", <<"EXO">>, "LIVE")}

InitRunSection ==
    /\ \E f \in Fetchers, p \in ParamSets, sp \in SectionParamShapes,
          to \in TimeoutBudgets, t0 \in StartInstants, dt \in FetchTimes :
          call = [fn |-> "run_section", fetcher_fn |-> f, params |-> p, section_params |-> sp,
                  timeout |-> to, start |-> t0, took |-> dt]
    /\ ret = NoRet
    /\ RcIdle
    /\ PsIdle
    /\ PeIdle
    /\ SqIdle

RunSection ==
    /\ call.fn = "run_section"
    /\ ret = NoRet
    /\ ret' = [fn |-> "run_section",
               out |-> run_section(call.fetcher_fn, call.params, call.section_params,
                                   call.timeout, call.start, call.took)]
    /\ UNCHANGED <<call, rcVars, psVars, peVars, sqVars>>

NextRunSection == RunSection

SpecRunSection == InitRunSection /\ [][NextRunSection]_vars

\* C9: run_section never raises; when the fetcher returns the result has
\* status ok, the fetcher's data, a last_updated instant, a duration and an
\* empty error text; when the fetcher raises it has status error, no data,
\* no last_updated, a non-empty error text, and a duration.
C9_RunSectionNeverRaises ==
    ret.fn = "run_section" =>
        LET f == CallFetcher(call.fetcher_fn, call.params, call.section_params)
            r == ret.out.value
        IN  /\ ~ret.out.raised
            /\ r.metadata.refresh_duration_ms \in Nat
            /\ ~f.raised =>
                  /\ r.metadata.status = "ok"
                  /\ r.data = f.value /\ r.data # None
                  /\ r.metadata.last_updated # None
                  /\ r.error_stack = ""
            /\ f.raised =>
                  /\ r.metadata.status = "error"
                  /\ r.data = None
                  /\ r.metadata.last_updated = None
                  /\ r.error_stack # ""

\* C9 witness: a fetcher has raised inside run_section and the result says so.
C9_Witness ==
    /\ ret.fn = "run_section"
    /\ CallFetcher(call.fetcher_fn, call.params, call.section_params).raised
    /\ ~ret.out.raised
    /\ ret.out.value.metadata.status = "error"
    /\ ret.out.value.error_stack # ""


(***************************************************************************)
(* position_server/scheduler.py: the time-of-day window.                   *)
(* A clock time is <<hour, minute>>.  The code compares the "%H:%M"        *)
(* strings; strftime pads with zeros, so a string is its four digits (the  *)
(* colon is the same in all of them) and str comparison is lexicographic.  *)
(***************************************************************************)
Hours == {0, 5, 6, 12, 18, 22, 23}
Minutes == {0, 30, 59}
ClockTimes == Hours \X Minutes

\* datetime.strftime("%H:%M")
strftime(t) == <<t[1] \div 10, t[1] % 10, t[2] \div 10, t[2] % 10>>

RECURSIVE LexLeq(_, _)
LexLeq(a, b) ==
    IF a = <<>> THEN TRUE
    ELSE IF b = <<>> THEN FALSE
    ELSE IF Head(a) < Head(b) THEN TRUE
    ELSE IF Head(a) > Head(b) THEN FALSE
    ELSE LexLeq(Tail(a), Tail(b))

\* A mutant of _in_time_window: no overnight branch.
in_time_window_same_day(start_time, end_time, now) ==
    LexLeq(start_time, now) /\ LexLeq(now, end_time)

\* _in_time_window, with the current time "now" an input.
in_time_window(start_time, end_time, now) ==
    IF LexLeq(start_time, end_time)
    THEN LexLeq(start_time, now) /\ LexLeq(now, end_time)
    ELSE LexLeq(start_time, now) \/ LexLeq(now, end_time)

InitWindow ==
    /\ \E s \in ClockTimes, e \in ClockTimes, n \in ClockTimes :
          call = [fn |-> "_in_time_window", start_time |-> s, end_time |-> e, now |-> n]
    /\ ret = NoRet
    /\ RcIdle
    /\ PsIdle
    /\ PeIdle
    /\ SqIdle

\* One window check of a tick.
CheckWindow ==
    /\ call.fn = "_in_time_window"
    /\ ret = NoRet
    /\ ret' = [fn |-> "_in_time_window",
               in_window |-> in_time_window(strftime(call.start_time),
                                            strftime(call.end_time),
                                            strftime(call.now))]
    /\ UNCHANGED <<call, rcVars, psVars, peVars, sqVars>>

NextWindow == CheckWindow

SpecWindow == InitWindow /\ [][NextWindow]_vars

\* Minutes since midnight.
MinuteOfDay(t) == t[1] * 60 + t[2]

\* t lies in the half-open window [s, e), which wraps past midnight when s > e.
InHalfOpenWindow(s, e, t) ==
    IF MinuteOfDay(s) <= MinuteOfDay(e)
    THEN MinuteOfDay(s) <= MinuteOfDay(t) /\ MinuteOfDay(t) < MinuteOfDay(e)
    ELSE MinuteOfDay(t) >= MinuteOfDay(s) \/ MinuteOfDay(t) < MinuteOfDay(e)

\* C5: a tick is classified in-window exactly when the current time lies in
\* the half-open window [start_time, end_time); at end_time it is outside.
C5_WindowHalfOpen ==
    ret.fn = "_in_time_window"
    => (ret.in_window <=> InHalfOpenWindow(call.start_time, call.end_time, call.now))

\* C6: with start_time 22:00 and end_time 06:00, every time strictly between
\* 22:00 and midnight or strictly between midnight and 06:00 (23:30 is one)
\* is in-window, and every time strictly between 06:00 and 22:00 (12:00 is
\* one) is outside-window.
C6_OvernightWindow ==
    (ret.fn = "_in_time_window" /\ call.start_time = <<22, 0>> /\ call.end_time = <<6, 0>>)
    => /\ (MinuteOfDay(call.now) > 22 * 60 \/ (0 < MinuteOfDay(call.now) /\ MinuteOfDay(call.now) < 6 * 60))
            => ret.in_window
       /\ (6 * 60 < MinuteOfDay(call.now) /\ MinuteOfDay(call.now) < 22 * 60)
            => ~ret.in_window

\* C6 witness: 23:30 has been classified in-window for the window 22:00-06:00.
C6_Witness ==
    /\ ret.fn = "_in_time_window"
    /\ call.start_time = <<22, 0>> /\ call.end_time = <<6, 0>> /\ call.now = <<23, 30>>
    /\ ret.in_window

(***************************************************************************)
(* The position server: server.main() launches the warmup threads and then *)
(* the IOLoop; requests run as coroutines on the IOLoop; warmup jobs run   *)
(* on their own threads; every section fetch runs on the shared executor.  *)
(***************************************************************************)
Requests == {"r1", "r2"}

WARMUP_CONFIGS ==
    <<[name |-> "SOD_MAIN", env_date |-> "20251216", pos_date |-> "20251215",
       books |-> <<"CUPS", "YCSO">>, time_of_day |-> "SOD",
       schedule |-> [start_time |-> <<6, 0>>, end_time |-> <<18, 0>>, interval_seconds |-> 60]],
      [name |-> "LIVE_EXO", env_date |-> "20251216", pos_date |-> "20251215",
       books |-> <<"EXO">>, time_of_day |-> "LIVE",
       schedule |-> [start_time |-> <<7, 0>>, end_time |-> <<18, 0>>, interval_seconds |-> 30]]>>

JobNames == {WARMUP_CONFIGS[i].name : i \in DOMAIN WARMUP_CONFIGS}
Callers == Requests \cup JobNames

ConfigOf(name) == CHOOSE c \in Range(warmup_configs) : c.name = name

\* The local times at which a tick may look at the clock.
TickTimes == {<<5, 0>>, <<12, 0>>, <<18, 0>>}

\* The raw parameter sets a client may send.
RequestInputs ==
    {BaseParams("20251216", "20251215", <<"CUPS", "YCSO">>, "SOD"),
     BaseParams("20251216", "20251215", <<"YCSO", "CUPS">>, "SOD"),
     BaseParams("20251216", "20251215", <<"EXO">>, "LIVE"),
     BaseParams("20251216", "20251215", <<"EXO">>, "Live")}

\* The section_params a POST body may carry: section name -> shape of its value.
SectionParamInputs ==
    {EmptyMap, "futures" :> "wrong_type", "bonds" :> "not_a_mapping", "futures" :> "overrides",
     "ir_delta" :> "overrides"}

(***************************************************************************)
(* position_server/cache.py                                                *)
(***************************************************************************)
\* get_from_cache
get_from_cache(c, key) == IF key \in DOMAIN c THEN c[key].sections ELSE None

\* A mutant of write_to_cache: an entry that is present is kept.
write_to_cache_keeps_first(c, key, sections, now) ==
    [k \in DOMAIN c \cup {key} |->
        IF k \in DOMAIN c THEN c[k]
        ELSE [sections |-> sections, cached_at |-> isoformat(now)]]

\* A mutant of write_to_cache: an entry that is present is updated section
\* by section, and keeps its bonds section.
write_to_cache_merging(c, key, sections, now) ==
    [k \in DOMAIN c \cup {key} |->
        IF k # key THEN c[k]
        ELSE [sections |-> [n \in DOMAIN sections |->
                               IF k \in DOMAIN c /\ n = "bonds" /\ n \in DOMAIN c[k].sections
                               THEN c[k].sections[n] ELSE sections[n]],
              cached_at |-> isoformat(now)]]

\* A mutant of write_to_cache: an aggregate with a failed section is not stored.
write_to_cache_ok_only(c, key, sections, now) ==
    IF \E n \in DOMAIN sections : sections[n].metadata.status = "error"
    THEN c
    ELSE [k \in DOMAIN c \cup {key} |->
             IF k = key THEN [sections |-> sections, cached_at |-> isoformat(now)] ELSE c[k]]

\* write_to_cache
write_to_cache(c, key, sections, now) ==
    [k \in DOMAIN c \cup {key} |->
        IF k = key THEN [sections |-> sections, cached_at |-> isoformat(now)] ELSE c[k]]

(***************************************************************************)
(* position_server/orchestrator.py                                         *)
(***************************************************************************)
OrchIdle ==
    [phase |-> "idle", run |-> 0, params |-> NoParams, section_params |-> EmptyMap,
     futures_map |-> <<>>, results |-> EmptyMap, exc |-> ""]

NoCalls == [n \in SectionNames |-> 0]

\* sections_to_fetch[name]: the fetcher and the parameters of the section.
FetcherOf(name) ==
    IF name \in broken THEN "always_raises"
    ELSE IF name = "futures" THEN "get_futures" ELSE "get_bonds"

\* A mutant of section_params.get(name, {}): a section without parameters
\* of its own is given those of another section.
ParamsForSection_borrowed(section_params, name) ==
    IF name \in DOMAIN section_params THEN section_params[name]
    ELSE IF DOMAIN section_params = {} THEN "empty"
    ELSE section_params[CHOOSE n \in DOMAIN section_params : TRUE]

\* section_params.get(name, {})
ParamsForSection(section_params, name) ==
    IF name \in DOMAIN section_params THEN section_params[name] ELSE "empty"

\* config.TIMEOUTS.get(name, config.TIMEOUTS["default"])
TimeoutOf(name) == CHOOSE t \in TIMEOUTS : TRUE

\* section_params or {}
or_empty(section_params) == IF section_params = None THEN EmptyMap ELSE section_params

\* fetch_all_sections is entered: nothing is submitted yet.
BeginOrch(c, params, section_params) ==
    /\ runs < MaxRuns
    /\ runs' = runs + 1
    /\ orch' = [orch EXCEPT ![c] =
                  [phase |-> "submitting", run |-> runs + 1, params |-> params,
                   section_params |-> or_empty(section_params), futures_map |-> <<>>,
                   results |-> EmptyMap, exc |-> ""]]
    /\ fetcher_calls' = [fetcher_calls EXCEPT ![c] = NoCalls]

\* A mutant of the submit loop: the work item is dropped when no worker is free.
Enqueue_or_drop(ex, task) ==
    IF Cardinality(ex.running) + Len(ex.queue) < max_workers
    THEN [ex EXCEPT !.queue = Append(@, task)]
    ELSE ex

\* ThreadPoolExecutor.submit: the work item joins the queue.
Enqueue(ex, task) == [ex EXCEPT !.queue = Append(@, task)]

\* One turn of the submit loop: loop.run_in_executor(executor, run_section, ...).
Submit(c) ==
    /\ orch[c].phase = "submitting"
    /\ LET name == Sections[Len(orch[c].futures_map) + 1]
       IN  /\ executor' = Enqueue(executor, <<c, name>>)
           /\ orch' = [orch EXCEPT ![c].futures_map = Append(@, name),
                                   ![c].phase = IF Len(orch[c].futures_map) + 1 = Len(Sections)
                                                THEN "collecting" ELSE "submitting"]
    /\ UNCHANGED <<main, server_status, warmup_configs, warmup_status, worker, request,
                   cache, runs, broken, fetcher_calls, pureVars, rcVars, peVars, sqVars>>

\* The number of workers that can take a work item.
FreeWorkers(ex) == max_workers - Cardinality(ex.running)

\* A mutant of the pool: a work item is started whether or not a worker is free.
WorkerStart_unbounded ==
    /\ executor.queue # <<>>
    /\ executor' = [executor EXCEPT !.queue = Tail(@), !.running = @ \cup {Head(executor.queue)},
                                   !.since = @ @@ (Head(executor.queue) :> clock)]
    /\ UNCHANGED <<main, server_status, warmup_configs, warmup_status, worker, request,
                   orch, cache, runs, broken, fetcher_calls, pureVars, rcVars, peVars, sqVars>>

\* A pool worker takes the oldest work item.
WorkerStart ==
    /\ executor.queue # <<>>
    /\ FreeWorkers(executor) > 0
    /\ executor' = [executor EXCEPT !.queue = Tail(@), !.running = @ \cup {Head(executor.queue)},
                                   !.since = @ @@ (Head(executor.queue) :> clock)]
    /\ UNCHANGED <<main, server_status, warmup_configs, warmup_status, worker, request,
                   orch, cache, runs, broken, fetcher_calls, pureVars, rcVars, peVars, sqVars>>

\* The worker's run_section call ends: its fetcher has returned or raised.
WorkerFinish(task) ==
    /\ task \in executor.running
    /\ LET c == task[1]
           name == task[2]
           out == run_section(FetcherOf(name), orch[c].params,
                              ParamsForSection(orch[c].section_params, name),
                              TimeoutOf(name), orch[c].run, 0)
       IN  /\ executor' = [executor EXCEPT
                              !.running = @ \ {task},
                              !.futures = @ @@ (task :> out),
                              !.since = [t \in DOMAIN @ \ {task} |-> @[t]]]
           /\ fetcher_calls' = [fetcher_calls EXCEPT ![c][name] = @ + 1]
    /\ UNCHANGED <<main, server_status, warmup_configs, warmup_status, worker, request,
                   orch, cache, runs, broken, pureVars, rcVars, peVars, sqVars>>

\* A mutant of the collect loop: the future awaited for a section is that of
\* any call in flight.
Await_any(c) ==
    /\ orch[c].phase = "collecting"
    /\ \E d \in Callers :
        LET i == Cardinality(DOMAIN orch[c].results) + 1
            name == orch[c].futures_map[i]
            task == <<d, name>>
        IN  /\ task \in DOMAIN executor.futures
            /\ executor' = [executor EXCEPT !.futures =
                               [t \in DOMAIN executor.futures \ {task} |-> executor.futures[t]]]
            /\ orch' = [orch EXCEPT ![c] =
                           IF executor.futures[task].raised
                           THEN [@ EXCEPT !.phase = "raised", !.exc = executor.futures[task].exc]
                           ELSE [@ EXCEPT !.results = @ @@ (name :> executor.futures[task].value),
                                          !.phase = IF i = Len(orch[c].futures_map)
                                                    THEN "returned" ELSE "collecting"]]
    /\ UNCHANGED <<main, server_status, warmup_configs, warmup_status, worker, request,
                   cache, runs, broken, fetcher_calls, pureVars, rcVars, peVars, sqVars>>

\* One turn of the collect loop: results[name] = await future.
Await(c) ==
    /\ orch[c].phase = "collecting"
    /\ LET i == Cardinality(DOMAIN orch[c].results) + 1
           name == orch[c].futures_map[i]
           task == <<c, name>>
       IN  /\ task \in DOMAIN executor.futures
           /\ executor' = [executor EXCEPT !.futures =
                              [t \in DOMAIN executor.futures \ {task} |-> executor.futures[t]]]
           /\ orch' = [orch EXCEPT ![c] =
                          IF executor.futures[task].raised
                          THEN [@ EXCEPT !.phase = "raised", !.exc = executor.futures[task].exc]
                          ELSE [@ EXCEPT !.results = @ @@ (name :> executor.futures[task].value),
                                         !.phase = IF i = Len(orch[c].futures_map)
                                                   THEN "returned" ELSE "collecting"]]
    /\ UNCHANGED <<main, server_status, warmup_configs, warmup_status, worker, request,
                   cache, runs, broken, fetcher_calls, pureVars, rcVars, peVars, sqVars>>

(***************************************************************************)
(* position_server/handlers/position_environment.py                        *)
(***************************************************************************)
RequestIdle ==
    [pc |-> "idle", method |-> "", raw |-> NoParams, params |-> NoParams,
     cache_key |-> <<>>, response |-> None]

\* _write_response
write_response(params, section_params, cache_hit, sections) ==
    [status |-> 200, request_params |-> params, section_params |-> section_params,
     cache_hit |-> cache_hit, server_status |-> server_status, error |-> FALSE,
     error_stack |-> "", sections |-> sections]

\* _write_error
write_error(error_stack) ==
    [status |-> 400, request_params |-> None, section_params |-> None,
     cache_hit |-> FALSE, server_status |-> server_status, error |-> TRUE,
     error_stack |-> error_stack, sections |-> None]

\* extract_from_get
extract_from_get(raw) == _validate(raw.env_date, raw.pos_date, raw.books, raw.time_of_day)

\* A mutant of extract_from_post: the fields are taken as they come.
extract_from_post_unchecked(raw) ==
    [ok |-> TRUE,
     params |-> BaseParams(raw.env_date, raw.pos_date, raw.books, raw.time_of_day),
     error |-> ""]

\* extract_from_post
extract_from_post(raw) == _validate(raw.env_date, raw.pos_date, raw.books, raw.time_of_day)

\* A mutant of PositionEnvironmentHandler.get: a miss on a key that another
\* GET is refreshing starts no orchestration and waits for that refresh.
Get_coalesced(r, raw) ==
    /\ main.pc = "serving"
    /\ request[r].pc = "idle"
    /\ LET v == extract_from_get(raw)
           key == to_cache_key(v.params)
           cached == get_from_cache(cache, key)
       IN  IF ~v.ok
           THEN /\ request' = [request EXCEPT ![r] =
                      [pc |-> "done", method |-> "GET", raw |-> raw, params |-> NoParams,
                       cache_key |-> <<>>, response |-> write_error(v.error)]]
                /\ UNCHANGED <<orch, runs, fetcher_calls>>
           ELSE IF cached # None
           THEN /\ request' = [request EXCEPT ![r] =
                      [pc |-> "done", method |-> "GET", raw |-> raw, params |-> v.params,
                       cache_key |-> key,
                       response |-> write_response(v.params, None, TRUE, cached)]]
                /\ fetcher_calls' = [fetcher_calls EXCEPT ![r] = NoCalls]
                /\ UNCHANGED <<orch, runs>>
           ELSE IF \E q \in Requests : request[q].pc = "fetching" /\ request[q].cache_key = key
           THEN /\ request' = [request EXCEPT ![r] =
                      [pc |-> "fetching", method |-> "GET", raw |-> raw, params |-> v.params,
                       cache_key |-> key, response |-> None]]
                /\ UNCHANGED <<orch, runs, fetcher_calls>>
           ELSE /\ BeginOrch(r, v.params, None)
                /\ request' = [request EXCEPT ![r] =
                      [pc |-> "fetching", method |-> "GET", raw |-> raw, params |-> v.params,
                       cache_key |-> key, response |-> None]]
    /\ UNCHANGED <<main, server_status, warmup_configs, warmup_status, worker, executor,
                   cache, broken, pureVars, rcVars, peVars, sqVars>>

\* PositionEnvironmentHandler.get up to its first suspension.
Get(r, raw) ==
    /\ main.pc = "serving"
    /\ request[r].pc = "idle"
    /\ LET v == extract_from_get(raw)
           key == to_cache_key(v.params)
           cached == get_from_cache(cache, key)
       IN  IF ~v.ok
           THEN /\ request' = [request EXCEPT ![r] =
                      [pc |-> "done", method |-> "GET", raw |-> raw, params |-> NoParams,
                       cache_key |-> <<>>, response |-> write_error(v.error)]]
                /\ UNCHANGED <<orch, runs, fetcher_calls>>
           ELSE IF cached # None
           THEN /\ request' = [request EXCEPT ![r] =
                      [pc |-> "done", method |-> "GET", raw |-> raw, params |-> v.params,
                       cache_key |-> key,
                       response |-> write_response(v.params, None, TRUE, cached)]]
                /\ fetcher_calls' = [fetcher_calls EXCEPT ![r] = NoCalls]
                /\ UNCHANGED <<orch, runs>>
           ELSE /\ BeginOrch(r, v.params, None)
                /\ request' = [request EXCEPT ![r] =
                      [pc |-> "fetching", method |-> "GET", raw |-> raw, params |-> v.params,
                       cache_key |-> key, response |-> None]]
    /\ UNCHANGED <<main, server_status, warmup_configs, warmup_status, worker, executor,
                   cache, broken, pureVars, rcVars, peVars, sqVars>>

\* PositionEnvironmentHandler.get after fetch_all_sections.
GetFinish(r) ==
    /\ request[r].pc = "fetching" /\ request[r].method = "GET"
    /\ orch[r].phase \in {"returned", "raised"}
    /\ IF orch[r].phase = "returned"
       THEN /\ cache' = write_to_cache(cache, request[r].cache_key, orch[r].results, clock)
            /\ request' = [request EXCEPT ![r].pc = "done",
                              ![r].response = write_response(request[r].params, None, FALSE,
                                                             orch[r].results)]
       ELSE /\ request' = [request EXCEPT ![r].pc = "done",
                              ![r].response = write_error(format_exc(orch[r].exc))]
            /\ UNCHANGED cache
    /\ orch' = [orch EXCEPT ![r] = OrchIdle]
    /\ UNCHANGED <<main, server_status, warmup_configs, warmup_status, worker, executor,
                   runs, broken, fetcher_calls, pureVars, rcVars, peVars, sqVars>>

\* PositionEnvironmentHandler.post up to its first suspension.
Post(r, raw, section_params) ==
    /\ main.pc = "serving"
    /\ request[r].pc = "idle"
    /\ LET v == extract_from_post(raw)
       IN  IF ~v.ok
           THEN /\ request' = [request EXCEPT ![r] =
                      [pc |-> "done", method |-> "POST", raw |-> raw, params |-> NoParams,
                       cache_key |-> <<>>, response |-> write_error(v.error)]]
                /\ UNCHANGED <<orch, runs, fetcher_calls>>
           ELSE /\ BeginOrch(r, v.params, section_params)
                /\ request' = [request EXCEPT ![r] =
                      [pc |-> "fetching", method |-> "POST", raw |-> raw, params |-> v.params,
                       cache_key |-> <<>>, response |-> None]]
    /\ UNCHANGED <<main, server_status, warmup_configs, warmup_status, worker, executor,
                   cache, broken, pureVars, rcVars, peVars, sqVars>>

\* A mutant of the end of post: the aggregate is written to the cache.
PostFinish_caches(r) ==
    /\ request[r].pc = "fetching" /\ request[r].method = "POST"
    /\ orch[r].phase \in {"returned", "raised"}
    /\ request' = [request EXCEPT ![r].pc = "done",
                      ![r].response =
                          IF orch[r].phase = "returned"
                          THEN write_response(request[r].params, orch[r].section_params, FALSE,
                                              orch[r].results)
                          ELSE write_error(format_exc(orch[r].exc))]
    /\ cache' = IF orch[r].phase = "returned"
                THEN write_to_cache(cache, to_cache_key(request[r].params), orch[r].results,
                                    clock)
                ELSE cache
    /\ orch' = [orch EXCEPT ![r] = OrchIdle]
    /\ UNCHANGED <<main, server_status, warmup_configs, warmup_status, worker, executor,
                   runs, broken, fetcher_calls, pureVars, rcVars, peVars, sqVars>>

\* PositionEnvironmentHandler.post after fetch_all_sections.
PostFinish(r) ==
    /\ request[r].pc = "fetching" /\ request[r].method = "POST"
    /\ orch[r].phase \in {"returned", "raised"}
    /\ request' = [request EXCEPT ![r].pc = "done",
                      ![r].response =
                          IF orch[r].phase = "returned"
                          THEN write_response(request[r].params, orch[r].section_params, FALSE,
                                              orch[r].results)
                          ELSE write_error(format_exc(orch[r].exc))]
    /\ orch' = [orch EXCEPT ![r] = OrchIdle]
    /\ UNCHANGED <<main, server_status, warmup_configs, warmup_status, worker, executor,
                   cache, runs, broken, fetcher_calls, pureVars, rcVars, peVars, sqVars>>

(***************************************************************************)
(* position_server/scheduler.py and server.py                              *)
(***************************************************************************)
WorkerUnstarted ==
    [pc |-> "unstarted", params |-> NoParams, start |-> 0, duration_ms |-> 0, slept |-> 0]

\* str(e): the description of an exception.
str_of(e) == [message |-> e]

StatusStarting ==
    [status |-> "starting", in_time_window |-> FALSE, last_run |-> None,
     last_duration_ms |-> None, last_error |-> None]

\* One turn of the loop of start_all_warmup_workers: the job's status entry
\* is created and its thread started.
Launch ==
    /\ main.pc = "launching"
    /\ main.next <= Len(warmup_configs)
    /\ LET name == warmup_configs[main.next].name
       IN  /\ warmup_status' = [n \in DOMAIN warmup_status \cup {name} |->
                                   IF n = name THEN StatusStarting ELSE warmup_status[n]]
           /\ worker' = [worker EXCEPT ![name].pc = "build"]
    /\ main' = [main EXCEPT !.next = @ + 1]
    /\ UNCHANGED <<server_status, warmup_configs, request, orch, executor, cache, runs,
                   broken, fetcher_calls, pureVars, rcVars, peVars, sqVars>>

\* A mutant of the end of start_all_warmup_workers: the status is set after
\* the first launch.
SetServerRunning_early ==
    /\ main.pc = "launching"
    /\ main.next > 1
    /\ server_status' = "running"
    /\ main' = [main EXCEPT !.pc = "started"]
    /\ UNCHANGED <<warmup_configs, warmup_status, worker, request, orch, executor, cache,
                   runs, broken, fetcher_calls, pureVars, rcVars, peVars, sqVars>>

\* The end of start_all_warmup_workers.
SetServerRunning ==
    /\ main.pc = "launching"
    /\ main.next > Len(warmup_configs)
    /\ server_status' = "running"
    /\ main' = [main EXCEPT !.pc = "started"]
    /\ UNCHANGED <<warmup_configs, warmup_status, worker, request, orch, executor, cache,
                   runs, broken, fetcher_calls, pureVars, rcVars, peVars, sqVars>>

\* IOLoop.current().start(): requests are served from here on.
StartIOLoop ==
    /\ main.pc = "started"
    /\ main' = [main EXCEPT !.pc = "serving"]
    /\ UNCHANGED <<server_status, warmup_configs, warmup_status, worker, request, orch,
                   executor, cache, runs, broken, fetcher_calls, pureVars, rcVars, peVars, sqVars>>

\* A mutant of the head of _warmup_worker: the loop is entered after a config error.
BuildParams_continues(j) ==
    /\ worker[j].pc = "build"
    /\ LET v == build_from_dict(ConfigOf(j))
       IN  IF v.ok
           THEN /\ worker' = [worker EXCEPT ![j].pc = "check", ![j].params = v.params]
                /\ UNCHANGED warmup_status
           ELSE /\ worker' = [worker EXCEPT ![j].pc = "check"]
                /\ warmup_status' = [warmup_status EXCEPT ![j].status = "config_error",
                                                          ![j].last_error = str_of(v.error)]
    /\ UNCHANGED <<main, server_status, warmup_configs, request, orch, executor, cache,
                   runs, broken, fetcher_calls, pureVars, rcVars, peVars, sqVars>>

\* _warmup_worker: build_from_dict(cfg).
BuildParams(j) ==
    /\ worker[j].pc = "build"
    /\ LET v == build_from_dict(ConfigOf(j))
       IN  IF v.ok
           THEN /\ worker' = [worker EXCEPT ![j].pc = "check", ![j].params = v.params]
                /\ UNCHANGED warmup_status
           ELSE /\ worker' = [worker EXCEPT ![j].pc = "exited"]
                /\ warmup_status' = [warmup_status EXCEPT ![j].status = "config_error",
                                                          ![j].last_error = str_of(v.error)]
    /\ UNCHANGED <<main, server_status, warmup_configs, request, orch, executor, cache,
                   runs, broken, fetcher_calls, pureVars, rcVars, peVars, sqVars>>

\* The head of a tick: the window check at local time now, and its record.
TickCheck(j, now) ==
    /\ worker[j].pc = "check"
    /\ LET schedule == ConfigOf(j).schedule
           in_window == in_time_window(strftime(schedule.start_time),
                                       strftime(schedule.end_time), strftime(now))
       IN  /\ warmup_status' = [warmup_status EXCEPT ![j].in_time_window = in_window]
           /\ worker' = [worker EXCEPT ![j].pc = IF in_window THEN "in_window" ELSE "outside"]
    /\ UNCHANGED <<main, server_status, warmup_configs, request, orch, executor, cache,
                   runs, broken, fetcher_calls, pureVars, rcVars, peVars, sqVars>>

\* A mutant of the outside-window branch: the record of the last run is reset.
TickOutside_resets(j) ==
    /\ worker[j].pc = "outside"
    /\ warmup_status' = [warmup_status EXCEPT ![j].status = "outside_window",
                                              ![j].last_run = None,
                                              ![j].last_error = None]
    /\ worker' = [worker EXCEPT ![j].pc = "sleep"]
    /\ UNCHANGED <<main, server_status, warmup_configs, request, orch, executor, cache,
                   runs, broken, fetcher_calls, pureVars, rcVars, peVars, sqVars>>

\* A mutant of the outside-window branch: the loop goes on without sleeping.
TickOutside_spins(j) ==
    /\ worker[j].pc = "outside"
    /\ warmup_status' = [warmup_status EXCEPT ![j].status = "outside_window"]
    /\ worker' = [worker EXCEPT ![j].pc = "check"]
    /\ UNCHANGED <<main, server_status, warmup_configs, request, orch, executor, cache,
                   runs, broken, fetcher_calls, pureVars, rcVars, peVars, sqVars>>

\* Outside the window: the status is set, nothing is fetched.
TickOutside(j) ==
    /\ worker[j].pc = "outside"
    /\ warmup_status' = [warmup_status EXCEPT ![j].status = "outside_window"]
    /\ worker' = [worker EXCEPT ![j].pc = "sleep"]
    /\ UNCHANGED <<main, server_status, warmup_configs, request, orch, executor, cache,
                   runs, broken, fetcher_calls, pureVars, rcVars, peVars, sqVars>>

\* Inside the window: the status is set and fetch_all_sections_sync entered.
TickRun(j) ==
    /\ worker[j].pc = "in_window"
    /\ warmup_status' = [warmup_status EXCEPT ![j].status = "running"]
    /\ BeginOrch(j, worker[j].params, None)
    /\ worker' = [worker EXCEPT ![j].pc = "fetching", ![j].start = clock]
    /\ UNCHANGED <<main, server_status, warmup_configs, request, executor, cache,
                   broken, pureVars, rcVars, peVars, sqVars>>

\* Inside the window: the status is set, and fetch_all_sections_sync raises
\* before it submits anything (asyncio.new_event_loop() finds no descriptor).
TickRunFail(j) ==
    /\ worker[j].pc = "in_window"
    /\ warmup_status' = [warmup_status EXCEPT ![j].status = "running"]
    /\ orch' = [orch EXCEPT ![j] = [OrchIdle EXCEPT !.phase = "raised",
                                                   !.exc = "OSError: Too many open files"]]
    /\ worker' = [worker EXCEPT ![j].pc = "fetching", ![j].start = clock]
    /\ UNCHANGED <<main, server_status, warmup_configs, request, executor, cache, runs,
                   broken, fetcher_calls, pureVars, rcVars, peVars, sqVars>>

\* A mutant of the except branch of the tick: the failure is recorded in
\* every entry of the status table.
TickWrite_marks_all(j) ==
    /\ worker[j].pc = "fetching"
    /\ orch[j].phase \in {"returned", "raised"}
    /\ IF orch[j].phase = "returned"
       THEN /\ cache' = write_to_cache(cache, to_cache_key(worker[j].params),
                                       orch[j].results, clock)
            /\ worker' = [worker EXCEPT ![j].pc = "written",
                                        ![j].duration_ms = (clock - worker[j].start) * 1000]
            /\ orch' = [orch EXCEPT ![j].phase = "written"]
            /\ UNCHANGED warmup_status
       ELSE /\ warmup_status' = [n \in DOMAIN warmup_status |->
                                    [warmup_status[n] EXCEPT
                                        !.status = "error",
                                        !.last_error = str_of(orch[j].exc)]]
            /\ worker' = [worker EXCEPT ![j].pc = "sleep"]
            /\ orch' = [orch EXCEPT ![j] = OrchIdle]
            /\ UNCHANGED cache
    /\ UNCHANGED <<main, server_status, warmup_configs, request, executor, runs, broken,
                   fetcher_calls, pureVars, rcVars, peVars, sqVars>>

\* A mutant of the except branch of the tick: the loop is left on a failure.
TickWrite_exits(j) ==
    /\ worker[j].pc = "fetching"
    /\ orch[j].phase \in {"returned", "raised"}
    /\ IF orch[j].phase = "returned"
       THEN /\ cache' = write_to_cache(cache, to_cache_key(worker[j].params),
                                       orch[j].results, clock)
            /\ worker' = [worker EXCEPT ![j].pc = "written",
                                        ![j].duration_ms = (clock - worker[j].start) * 1000]
            /\ orch' = [orch EXCEPT ![j].phase = "written"]
            /\ UNCHANGED warmup_status
       ELSE /\ warmup_status' = [warmup_status EXCEPT ![j].status = "error",
                                                      ![j].last_error = str_of(orch[j].exc)]
            /\ worker' = [worker EXCEPT ![j].pc = "exited"]
            /\ orch' = [orch EXCEPT ![j] = OrchIdle]
            /\ UNCHANGED cache
    /\ UNCHANGED <<main, server_status, warmup_configs, request, executor, runs, broken,
                   fetcher_calls, pureVars, rcVars, peVars, sqVars>>

\* A mutant of the except branch of the tick: the failed attempt is recorded
\* as the job's last run.
TickWrite_stamps_failure(j) ==
    /\ worker[j].pc = "fetching"
    /\ orch[j].phase \in {"returned", "raised"}
    /\ IF orch[j].phase = "returned"
       THEN /\ cache' = write_to_cache(cache, to_cache_key(worker[j].params),
                                       orch[j].results, clock)
            /\ worker' = [worker EXCEPT ![j].pc = "written",
                                        ![j].duration_ms = (clock - worker[j].start) * 1000]
            /\ orch' = [orch EXCEPT ![j].phase = "written"]
            /\ UNCHANGED warmup_status
       ELSE /\ warmup_status' = [warmup_status EXCEPT
                                    ![j].status = "error",
                                    ![j].last_run = isoformat(runs + 1),
                                    ![j].last_duration_ms = (clock - worker[j].start) * 1000,
                                    ![j].last_error = str_of(orch[j].exc)]
            /\ worker' = [worker EXCEPT ![j].pc = "sleep"]
            /\ orch' = [orch EXCEPT ![j] = OrchIdle]
            /\ UNCHANGED cache
    /\ UNCHANGED <<main, server_status, warmup_configs, request, executor, runs, broken,
                   fetcher_calls, pureVars, rcVars, peVars, sqVars>>

\* fetch_all_sections_sync is over: its result is written to the cache, or
\* the exception it raised is recorded.
TickWrite(j) ==
    /\ worker[j].pc = "fetching"
    /\ orch[j].phase \in {"returned", "raised"}
    /\ IF orch[j].phase = "returned"
       THEN /\ cache' = write_to_cache(cache, to_cache_key(worker[j].params),
                                       orch[j].results, clock)
            /\ worker' = [worker EXCEPT ![j].pc = "written",
                                        ![j].duration_ms = (clock - worker[j].start) * 1000]
            /\ orch' = [orch EXCEPT ![j].phase = "written"]
            /\ UNCHANGED warmup_status
       ELSE /\ warmup_status' = [warmup_status EXCEPT ![j].status = "error",
                                                      ![j].last_error = str_of(orch[j].exc)]
            /\ worker' = [worker EXCEPT ![j].pc = "sleep"]
            /\ orch' = [orch EXCEPT ![j] = OrchIdle]
            /\ UNCHANGED cache
    /\ UNCHANGED <<main, server_status, warmup_configs, request, executor, runs, broken,
                   fetcher_calls, pureVars, rcVars, peVars, sqVars>>

\* A mutant of the last critical section: last_error is not cleared.
TickIdle_keeps_error(j) ==
    /\ worker[j].pc = "written"
    /\ warmup_status' = [warmup_status EXCEPT
                            ![j].status = "idle",
                            ![j].last_run = isoformat(orch[j].run),
                            ![j].last_duration_ms = worker[j].duration_ms]
    /\ worker' = [worker EXCEPT ![j].pc = "sleep"]
    /\ orch' = [orch EXCEPT ![j] = OrchIdle]
    /\ UNCHANGED <<main, server_status, warmup_configs, request, executor, cache, runs,
                   broken, fetcher_calls, pureVars, rcVars, peVars, sqVars>>

\* The tick's last critical section.
TickIdle(j) ==
    /\ worker[j].pc = "written"
    /\ warmup_status' = [warmup_status EXCEPT
                            ![j].status = "idle",
                            ![j].last_run = isoformat(orch[j].run),
                            ![j].last_duration_ms = worker[j].duration_ms,
                            ![j].last_error = None]
    /\ worker' = [worker EXCEPT ![j].pc = "sleep"]
    /\ orch' = [orch EXCEPT ![j] = OrchIdle]
    /\ UNCHANGED <<main, server_status, warmup_configs, request, executor, cache, runs,
                   broken, fetcher_calls, pureVars, rcVars, peVars, sqVars>>

\* time.sleep(interval) is over.
TickSleep(j) ==
    /\ worker[j].pc = "sleep"
    /\ worker' = [worker EXCEPT ![j].pc = "check",
                                ![j].slept = ConfigOf(j).schedule.interval_seconds]
    /\ UNCHANGED <<main, server_status, warmup_configs, warmup_status, request, orch,
                   executor, cache, runs, broken, fetcher_calls, pureVars, rcVars, peVars, sqVars>>

(***************************************************************************)
(* The request-path specification: the server is up, no warmup job is      *)
(* configured, and clients send GETs and POSTs.  The request slots are     *)
(* interchangeable, so the second is used only once the first is in use.   *)
(***************************************************************************)
PostInputs ==
    {<<raw, sp>> : raw \in {BaseParams("20251216", "20251215", <<"CUPS", "YCSO">>, "SOD")},
                   sp \in SectionParamInputs}
    \cup {<<BaseParams("20251216", "20251215", <<"EXO">>, "Live"), EmptyMap>>}

InOrder(r) == r = "r2" => request["r1"].pc # "idle"

Init ==
    /\ call = NoCall
    /\ ret = NoRet
    /\ RcIdle
    /\ main = [pc |-> "serving", next |-> 1]
    /\ server_status = "running"
    /\ warmup_configs = <<>>
    /\ warmup_status = EmptyMap
    /\ worker = [j \in JobNames |-> WorkerUnstarted]
    /\ request = [r \in Requests |-> RequestIdle]
    /\ orch = [c \in Callers |-> OrchIdle]
    /\ executor = [queue |-> <<>>, running |-> {}, futures |-> EmptyMap, since |-> EmptyMap]
    /\ cache = EmptyMap
    /\ runs = 0
    /\ broken \in SUBSET SectionNames
    /\ fetcher_calls = [c \in Callers |-> NoCalls]
    /\ PeIdle
    /\ SqIdle

Next ==
    \/ \E r \in Requests, raw \in RequestInputs : InOrder(r) /\ Get(r, raw)
    \/ \E r \in Requests : GetFinish(r)
    \/ \E r \in Requests, in \in PostInputs : InOrder(r) /\ Post(r, in[1], in[2])
    \/ \E r \in Requests : PostFinish(r)
    \/ \E c \in Callers : Submit(c)
    \/ WorkerStart
    \/ \E t \in Callers \X SectionNames : WorkerFinish(t)
    \/ \E c \in Callers : Await(c)

Spec == Init /\ [][Next]_vars

\* The fetcher of section name raises in caller c's current call.
FetcherRaises(c, name) ==
    CallFetcher(FetcherOf(name), orch[c].params,
                ParamsForSection(orch[c].section_params, name)).raised

\* C1: a fetch_all_sections call never raises, and the mapping it returns
\* has exactly one entry per configured section: status error with a
\* non-empty error text where the section's fetcher raises, status ok where
\* it returns.
C1_FailureIsolated ==
    \A c \in Callers :
        /\ orch[c].phase # "raised"
        /\ orch[c].phase = "returned" =>
              /\ DOMAIN orch[c].results = SectionNames
              /\ Cardinality(DOMAIN orch[c].results) = Len(Sections)
              /\ \A name \in SectionNames :
                    IF FetcherRaises(c, name)
                    THEN /\ orch[c].results[name].metadata.status = "error"
                         /\ orch[c].results[name].error_stack # ""
                    ELSE /\ orch[c].results[name].metadata.status = "ok"
                         /\ orch[c].results[name].error_stack = ""

\* C1 witness: a call has returned in which exactly one section's fetcher
\* raised; that entry is an error and the other is ok.
C1_Witness ==
    \E c \in Callers, k \in SectionNames :
        /\ orch[c].phase = "returned"
        /\ \A name \in SectionNames : FetcherRaises(c, name) <=> name = k
        /\ orch[c].results[k].metadata.status = "error"
        /\ \A name \in SectionNames \ {k} : orch[c].results[name].metadata.status = "ok"

\* Request q has been answered as a GET cache miss for parameters that equal
\* p up to the order of the books.
AnsweredMiss(q, p) ==
    /\ request[q].pc = "done" /\ request[q].method = "GET"
    /\ ~request[q].response.error /\ ~request[q].response.cache_hit
    /\ EqualExceptBookOrder(request[q].params, p)

\* Request r begins a GET with valid parameters in this step.
GetBegins(r) ==
    /\ request[r].pc = "idle" /\ request'[r].pc # "idle"
    /\ request'[r].method = "GET" /\ request'[r].params # NoParams

\* Request r's GET is answered in this step after fetching (a cache miss).
GetMissAnswered(r) ==
    /\ request[r].pc = "fetching" /\ request'[r].pc = "done"
    /\ request[r].method = "GET"

\* C3: a GET on an empty cache is a miss; a GET answered as a miss has
\* invoked each section fetcher exactly once and writes its aggregate to the
\* cache under its parameters; a GET that follows it with the same fields and the books in any
\* order is a hit that returns the same sections and invokes no fetcher.
C3_MissThenHit ==
    /\ [](\A r \in Requests :
            (request[r].pc = "done" /\ request[r].method = "GET" /\ ~request[r].response.error) =>
                IF request[r].response.cache_hit
                THEN fetcher_calls[r] = [n \in SectionNames |-> 0]
                ELSE fetcher_calls[r] = [n \in SectionNames |-> 1])
    /\ [][\A r \in Requests :
            GetMissAnswered(r) =>
                \E k \in DOMAIN cache' :
                    /\ k[1] = request[r].params.env_date
                    /\ k[2] = request[r].params.pos_date
                    /\ k[4] = request[r].params.time_of_day
                    /\ Range(k[3]) = Range(request[r].params.books)
                    /\ cache'[k].sections = request'[r].response.sections]_vars
    /\ [][\A r \in Requests :
            GetBegins(r) =>
                /\ cache = EmptyMap => (request'[r].pc = "fetching" /\ orch'[r].phase = "submitting")
                /\ \A q \in Requests \ {r} :
                      AnsweredMiss(q, request'[r].params) =>
                          /\ request'[r].pc = "done"
                          /\ request'[r].response.cache_hit
                          /\ request'[r].response.sections = request[q].response.sections
                          /\ orch'[r] = OrchIdle
                          /\ executor' = executor]_vars

\* C3 witness: a GET miss for books CUPS,YCSO was followed by a GET for
\* books YCSO,CUPS that was answered from the cache with the same sections.
C3_Witness ==
    \E q \in Requests, r \in Requests :
        /\ AnsweredMiss(q, request[r].params)
        /\ request[r].pc = "done" /\ request[r].method = "GET"
        /\ request[r].response.cache_hit
        /\ request[r].params.books # request[q].params.books
        /\ request[r].response.sections = request[q].response.sections
        /\ fetcher_calls[q] = [n \in SectionNames |-> 1]
        /\ fetcher_calls[r] = [n \in SectionNames |-> 0]

(***************************************************************************)
(* The ageing specification: the request path while the wall clock         *)
(* advances, so that cached aggregates grow old.                           *)
(***************************************************************************)
NextAging ==
    \/ Next
    \/ \E d \in Steps : Tick(d)

SpecAging == Init /\ [][NextAging]_vars

\* The age, at instant t, of the entry the cache holds under key.
AgeAt(key, t) == t - cache[key].cached_at.utc

\* C12: the position server serves a cached aggregate to a GET only while
\* it is younger than its time-to-live; once that lifetime has elapsed the
\* lookup is absent and the GET starts a fresh orchestration.
C12_StaleEntryNotServed ==
    [][\A r \in Requests :
          (GetBegins(r) /\ request'[r].cache_key \in DOMAIN cache) =>
              IF AgeAt(request'[r].cache_key, clock) < DEFAULT_CACHE_TTL
              THEN request'[r].pc = "done" /\ request'[r].response.cache_hit
              ELSE request'[r].pc = "fetching" /\ orch'[r].phase = "submitting"]_vars

(***************************************************************************)
(* The load specification: the server starts, its warmup jobs tick, and    *)
(* clients send GETs, all on the one executor.  Threads and the IOLoop are *)
(* scheduled fairly and every fetcher invocation ends.                     *)
(***************************************************************************)
LoadInputs == {BaseParams("20251216", "20251215", <<"YCSO", "CUPS">>, "SOD")}
LoadTimes == {<<12, 0>>}

InitLoad ==
    /\ call = NoCall
    /\ ret = NoRet
    /\ RcIdle
    /\ main = [pc |-> "launching", next |-> 1]
    /\ server_status = "starting"
    /\ warmup_configs = SubSeq(WARMUP_CONFIGS, 1, 1)
    /\ warmup_status = EmptyMap
    /\ worker = [j \in JobNames |-> WorkerUnstarted]
    /\ request = [r \in Requests |-> RequestIdle]
    /\ orch = [c \in Callers |-> OrchIdle]
    /\ executor = [queue |-> <<>>, running |-> {}, futures |-> EmptyMap, since |-> EmptyMap]
    /\ cache = EmptyMap
    /\ runs = 0
    /\ broken = {}
    /\ fetcher_calls = [c \in Callers |-> NoCalls]
    /\ PeIdle
    /\ SqIdle

NextLoad ==
    \/ Launch
    \/ SetServerRunning
    \/ StartIOLoop
    \/ \E j \in JobNames : BuildParams(j)
    \/ \E j \in JobNames, now \in LoadTimes : TickCheck(j, now)
    \/ \E j \in JobNames : TickRun(j)
    \/ \E j \in JobNames : TickWrite(j)
    \/ \E j \in JobNames : TickIdle(j)
    \/ \E j \in JobNames : TickSleep(j)
    \/ \E r \in Requests, raw \in LoadInputs : InOrder(r) /\ Get(r, raw)
    \/ \E r \in Requests : GetFinish(r)
    \/ \E c \in Callers : Submit(c)
    \/ WorkerStart
    \/ \E t \in Callers \X SectionNames : WorkerFinish(t)
    \/ \E c \in Callers : Await(c)

SpecLoad ==
    /\ InitLoad
    /\ [][NextLoad]_vars
    /\ \A c \in Callers : WF_vars(Submit(c)) /\ WF_vars(Await(c))
    /\ WF_vars(WorkerStart)
    /\ \A t \in Callers \X SectionNames : WF_vars(WorkerFinish(t))

InFlight(c) == orch[c].phase \in {"submitting", "collecting"}

\* C4: with more orchestration calls in flight than the pool has workers,
\* every call that has begun eventually returns its aggregate.
C4_EveryCallCompletes ==
    \A c \in Callers : InFlight(c) ~> (orch[c].phase = "returned")

\* C4 witness: more calls are in flight than the pool has workers, every
\* worker is busy and work items wait in the queue.
C4_Witness ==
    /\ Cardinality({c \in Callers : InFlight(c)}) > max_workers
    /\ \E r \in Requests, j \in JobNames : InFlight(r) /\ InFlight(j)
    /\ Cardinality(executor.running) = max_workers
    /\ executor.queue # <<>>

(***************************************************************************)
(* The /pos_env endpoint: config.py, validation/, sections/, storage/ and  *)
(* handlers/pos_env.py.  A query-string value is a string; the books       *)
(* string is kept as its pieces between commas.  A JSON body value is      *)
(* tagged with its JSON type: [str |-> ..], [float |-> ..], [bool |-> ..]. *)
(***************************************************************************)
TIME_OF_DAY_VALUES == {"Live", "Open", "Close"}
VALID_SECTIONS == <<"futures", "bonds", "ir_delta", "new_trades">>
SECTION_TTL == [futures |-> 60, bonds |-> 60, ir_delta |-> 60, new_trades |-> 30]
SECTIONS == {"futures", "bonds", "ir_delta", "new_trades"}

\* validation/sections.py: per section, the fields of its params model and their annotations.
SECTION_PARAMS_MAP ==
    [futures |-> [eod_price_override |-> "float", open_price_override |-> "float",
                  current_price_override |-> "float"],
     bonds |-> [spread_override |-> "float", yield_override |-> "float"],
     ir_delta |-> [curve_override |-> "str", shift_bps |-> "float"],
     new_trades |-> [include_tplus1 |-> "bool"]]

\* The fields without a default: NewTradesParams.include_tplus1.
RequiredFields == {"include_tplus1"}

CommonFields == {"section", "time_of_day", "books", "pos_date", "env_date"}

FloatLiterals == {"5000.0"}          \* strings float() parses
BoolTrueLiterals == {"true", "1", "yes"}
BoolFalseLiterals == {"false", "0", "no"}

\* CommonParams.validate_books: the list built, <<>> when it is rejected.
validate_books(v) ==
    LET NonBlank(b) == strip(b) # ""
    IN  IF "str" \in DOMAIN v
        THEN LET kept == SelectSeq(v.str, NonBlank)
             IN  [i \in DOMAIN kept |-> strip(kept[i])]
        ELSE v.list

\* validate_common_params: the CommonParams built, or the ValidationError raised.
validate_common_params(raw_params) ==
    LET params == IF raw_params.method = "GET" THEN raw_params.query_params ELSE raw_params.body
    IN  IF /\ CommonFields \subseteq DOMAIN params
           /\ params.section = "all" \/ params.section \in Range(VALID_SECTIONS)
           /\ params.time_of_day \in TIME_OF_DAY_VALUES
           /\ validate_books(params.books) # <<>>
           /\ params.pos_date \in DATE_FORMAT
           /\ params.env_date \in DATE_FORMAT
        THEN Returns([section |-> params.section, time_of_day |-> params.time_of_day,
                      books |-> validate_books(params.books), pos_date |-> params.pos_date,
                      env_date |-> params.env_date])
        ELSE Raises("ValidationError: Invalid common parameters")

\* resolve_sections
resolve_sections(section) == IF section = "all" THEN VALID_SECTIONS ELSE <<section>>

\* _convert_get_params: the query strings of the model's fields, converted by annotation.
convert_get_params(params, model) ==
    [f \in DOMAIN params \cap DOMAIN model |->
        CASE model[f] = "float" ->
                IF params[f] \in FloatLiterals THEN [float |-> params[f]] ELSE [str |-> params[f]]
          [] model[f] = "bool" -> [bool |-> params[f] \in BoolTrueLiterals]
          [] OTHER -> [str |-> params[f]]]

\* pydantic's (lax) validation of one value against an annotation.
Coerce(annotation, v) ==
    CASE annotation = "float" ->
            IF "float" \in DOMAIN v THEN Returns(v)
            ELSE IF "bool" \in DOMAIN v THEN Returns([float |-> IF v.bool THEN "1.0" ELSE "0.0"])
            ELSE IF v.str \in FloatLiterals THEN Returns([float |-> v.str])
            ELSE Raises("float_parsing")
      [] annotation = "bool" ->
            IF "bool" \in DOMAIN v THEN Returns(v)
            ELSE IF "float" \in DOMAIN v THEN Raises("bool_parsing")
            ELSE IF v.str \in BoolTrueLiterals THEN Returns([bool |-> TRUE])
            ELSE IF v.str \in BoolFalseLiterals THEN Returns([bool |-> FALSE])
            ELSE Raises("bool_parsing")
      [] OTHER ->
            IF "str" \in DOMAIN v THEN Returns(v) ELSE Raises("string_type")

\* model_class(**section_data): the model built, or the fields in error.
model_class(model, section_data) ==
    LET bad == {f \in DOMAIN model :
                   IF f \in DOMAIN section_data THEN Coerce(model[f], section_data[f]).raised
                   ELSE f \in RequiredFields}
    IN  IF bad = {}
        THEN Returns([f \in DOMAIN model |->
                         IF f \in DOMAIN section_data THEN Coerce(model[f], section_data[f]).value
                         ELSE None])
        ELSE Raises("ValidationError")

\* validate_section_params: section -> validated model, or the ValidationError raised.
validate_section_params(raw_params, sections) ==
    LET params == IF raw_params.method = "GET" THEN raw_params.query_params ELSE raw_params.body
        section_params_raw ==
            IF raw_params.method # "GET" /\ "section_params" \in DOMAIN params
            THEN params.section_params ELSE EmptyMap
        section_data(section) ==
            IF raw_params.method = "GET"
            THEN convert_get_params(params, SECTION_PARAMS_MAP[section])
            ELSE IF section \in DOMAIN section_params_raw THEN section_params_raw[section]
            ELSE EmptyMap
        built(section) == model_class(SECTION_PARAMS_MAP[section], section_data(section))
    IN  IF \E i \in DOMAIN sections :
              sections[i] \notin DOMAIN SECTION_PARAMS_MAP \/ built(sections[i]).raised
        THEN Raises("ValidationError: Invalid section parameters")
        ELSE Returns([section \in Range(sections) |-> built(section).value])

\* build_cache_key: the digest of the canonical JSON text, one per request_data.
build_cache_key(request_data) == [sha256 |-> request_data]

\* get_ttl_for_sections
get_ttl_for_sections(sections) ==
    IF sections = <<>> THEN DEFAULT_CACHE_TTL
    ELSE LET ttls == {IF s \in DOMAIN SECTION_TTL THEN SECTION_TTL[s] ELSE DEFAULT_CACHE_TTL :
                         s \in Range(sections)}
         IN  CHOOSE t \in ttls : \A u \in ttls : t <= u

\* get_section(name).execute(common, params): the mock data of the section,
\* or the exception a failing implementation raises.
execute(name, common, params) ==
    IF name \notin SECTIONS THEN Raises("KeyError: Unknown section")
    ELSE IF name \in failing THEN Raises("RuntimeError")
    ELSE Returns([section |-> name,
                  metadata |-> [time_of_day |-> common.time_of_day, books |-> common.books,
                                pos_date |-> common.pos_date, env_date |-> common.env_date],
                  params |-> params])

\* storage/models.py: RequestContext(request_id, timestamp, request_data)
RequestContext(request_id, timestamp, request_data) ==
    [request_id |-> request_id, timestamp |-> timestamp, request_data |-> request_data,
     response_data |-> EmptyMap, error_stack |-> "", duration_ms |-> 0, cached |-> FALSE]

\* RequestContext.to_dict
to_dict(context) ==
    [request_id |-> context.request_id, timestamp |-> context.timestamp,
     duration_ms |-> context.duration_ms, cached |-> context.cached,
     request_data |-> context.request_data, response_data |-> context.response_data,
     error_stack |-> context.error_stack]

PeRequests == {"p1", "p2"}

HandlerIdle ==
    [pc |-> "idle", use_cache |-> FALSE, context |-> None, start_time |-> 0,
     common |-> None, sections_to_run |-> <<>>, section_params |-> EmptyMap,
     todo |-> <<>>, results |-> EmptyMap, response |-> None]

\* The except clause of _handle: the context after an exception.
Failed(context, exc) ==
    [context EXCEPT !.response_data = EmptyMap, !.error_stack = format_exc(exc)]

\* _handle from its entry to its first await: validation, the cache lookup
\* of a GET and the section parameters.
handle(h, raw_params, use_cache) ==
    /\ handler[h].pc = "idle"
    /\ LET context == RequestContext(h, isoformat(clock), raw_params)
           started == [handler[h] EXCEPT !.use_cache = use_cache, !.context = context,
                                         !.start_time = clock]
           common == validate_common_params(raw_params)
           sections_to_run == resolve_sections(common.value.section)
           ttl == get_ttl_for_sections(sections_to_run)
           cached == RequestCache_get(caches, build_cache_key(raw_params), ttl, clock)
           section_params == validate_section_params(raw_params, sections_to_run)
       IN  IF common.raised
           THEN /\ handler' = [handler EXCEPT ![h] =
                       [started EXCEPT !.pc = "saving", !.context = Failed(context, common.exc)]]
                /\ UNCHANGED caches
           ELSE IF use_cache /\ cached.value # None
           THEN /\ handler' = [handler EXCEPT ![h] =
                       [started EXCEPT !.pc = "done", !.common = common.value,
                                       !.sections_to_run = sections_to_run,
                                       !.response = [cached.value EXCEPT
                                                        !.request_id = context.request_id,
                                                        !.timestamp = context.timestamp,
                                                        !.cached = TRUE,
                                                        !.request_data = raw_params]]]
                /\ caches' = cached.caches
           ELSE /\ caches' = IF use_cache THEN cached.caches ELSE caches
                /\ IF section_params.raised
                   THEN handler' = [handler EXCEPT ![h] =
                            [started EXCEPT !.pc = "saving", !.common = common.value,
                                            !.sections_to_run = sections_to_run,
                                            !.context = Failed(context, section_params.exc)]]
                   ELSE handler' = [handler EXCEPT ![h] =
                            [started EXCEPT !.pc = "running", !.common = common.value,
                                            !.sections_to_run = sections_to_run,
                                            !.section_params = section_params.value,
                                            !.todo = sections_to_run]]
    /\ UNCHANGED <<clock, written, store, failing, pureVars, psVars, sqVars>>

\* PosEnvHandler.get
PosEnvGet(h, raw_params) ==
    /\ raw_params.method = "GET"
    /\ handle(h, raw_params, TRUE)

\* PosEnvHandler.post
PosEnvPost(h, raw_params) ==
    /\ raw_params.method = "POST"
    /\ handle(h, raw_params, FALSE)

\* One iteration of the loop of _run_sections; after the last one, the rest
\* of the try block of _handle.  An exception of execute leaves the loop and
\* reaches the except clause of _handle.
run_sections(h) ==
    /\ handler[h].pc = "running"
    /\ LET H == handler[h]
           section_name == Head(H.todo)
           result == execute(section_name, H.common, H.section_params[section_name])
           results == [n \in DOMAIN H.results \cup {section_name} |->
                          IF n = section_name THEN result.value ELSE H.results[n]]
           context == [H.context EXCEPT !.response_data = results, !.error_stack = ""]
       IN  IF result.raised
           THEN /\ handler' = [handler EXCEPT ![h] =
                       [H EXCEPT !.pc = "saving", !.context = Failed(H.context, result.exc)]]
                /\ UNCHANGED caches
           ELSE IF Tail(H.todo) # <<>>
           THEN /\ handler' = [handler EXCEPT ![h] =
                       [H EXCEPT !.todo = Tail(H.todo), !.results = results]]
                /\ UNCHANGED caches
           ELSE /\ handler' = [handler EXCEPT ![h] =
                       [H EXCEPT !.pc = "saving", !.todo = <<>>, !.results = results,
                                 !.context = context]]
                /\ caches' = IF H.use_cache
                             THEN RequestCache_set(caches, build_cache_key(H.context.request_data),
                                                   to_dict(context),
                                                   get_ttl_for_sections(H.sections_to_run), clock)
                             ELSE caches
    /\ UNCHANGED <<clock, written, store, failing, pureVars, psVars, sqVars>>

\* The tail of _handle: the duration, store.save(context) and the response.
save(h) ==
    /\ handler[h].pc = "saving"
    /\ LET context == [handler[h].context EXCEPT
                          !.duration_ms = (clock - handler[h].start_time) * 1000,
                          !.cached = FALSE]
       IN  /\ store' = Append(store, to_dict(context))
           /\ handler' = [handler EXCEPT ![h] =
                  [@ EXCEPT !.pc = "done", !.context = context, !.response = to_dict(context)]]
    /\ UNCHANGED <<caches, clock, written, failing, pureVars, psVars, sqVars>>

(***************************************************************************)
(* The /pos_env specification: two requests, GET or POST, while the timer  *)
(* advances; at most one section's implementation raises.                  *)
(***************************************************************************)
Query(section, books, extra) ==
    [method |-> "GET",
     query_params |-> [section |-> section, time_of_day |-> "Live", books |-> [str |-> books],
                       pos_date |-> "20251215", env_date |-> "20251216"] @@ extra]

Body(section, books, extra) ==
    [method |-> "POST",
     body |-> [section |-> section, time_of_day |-> "Live", books |-> [list |-> books],
               pos_date |-> "20251215", env_date |-> "20251216"] @@ extra]

PosEnvGetInputs ==
    {Query("all", <<"CUPS", "YCSO">>, [include_tplus1 |-> "true"]),
     Query("all", <<"YCSO", "CUPS">>, [include_tplus1 |-> "true"]),
     Query("all", <<"CUPS", "YCSO">>, EmptyMap),
     Query("futures", <<"CUPS", "YCSO">>, [eod_price_override |-> "5000.0"]),
     Query("futures", <<"CUPS", "YCSO">>, [eod_price_override |-> "abc"]),
     Query("unknown", <<"CUPS", "YCSO">>, EmptyMap),
     Query("bonds", <<"", "">>, EmptyMap)}

PosEnvPostInputs ==
    {Body("all", <<"CUPS", "YCSO">>,
          [section_params |-> [new_trades |-> [include_tplus1 |-> [bool |-> TRUE]]]]),
     Body("all", <<"CUPS", "YCSO">>, EmptyMap),
     Body("new_trades", <<"CUPS">>,
          [section_params |-> [new_trades |-> [include_tplus1 |-> [str |-> "yes"]]]])}

PosEnvInOrder(h) == h = "p2" => handler["p1"].pc # "idle"

InitPosEnv ==
    /\ call = NoCall
    /\ ret = NoRet
    /\ RcIdle
    /\ PsIdle
    /\ SqIdle
    /\ handler = [h \in PeRequests |-> HandlerIdle]
    /\ store = <<>>
    /\ failing \in {{}} \cup {{s} : s \in SECTIONS}

NextPosEnv ==
    \/ \E h \in PeRequests, raw \in PosEnvGetInputs : PosEnvInOrder(h) /\ PosEnvGet(h, raw)
    \/ \E h \in PeRequests, raw \in PosEnvPostInputs : PosEnvInOrder(h) /\ PosEnvPost(h, raw)
    \/ \E h \in PeRequests : run_sections(h)
    \/ \E h \in PeRequests : save(h)
    \/ \E d \in Steps : Tick(d)

SpecPosEnv == InitPosEnv /\ [][NextPosEnv]_vars

\* Request h passed validation and ran its sections, and one of them raised.
SectionRaised(h) ==
    /\ handler[h].pc = "done"
    /\ ~handler[h].response.cached
    /\ handler[h].section_params # EmptyMap
    /\ Range(handler[h].sections_to_run) \cap failing # {}

\* C10: when one requested section's execute raises, the response of
\* /pos_env still holds the result of every other requested section, and
\* the request as a whole does not fail.
C10_PartialFailureStillAggregates ==
    \A h \in PeRequests :
        SectionRaised(h) =>
            \A s \in Range(handler[h].sections_to_run) \ failing :
                s \in DOMAIN handler[h].response.response_data

\* Two GET request_data that differ at most in the order of their books.
SameQueryExceptBookOrder(raw1, raw2) ==
    /\ raw1.method = "GET" /\ raw2.method = "GET"
    /\ DOMAIN raw1.query_params = DOMAIN raw2.query_params
    /\ \A f \in DOMAIN raw1.query_params \ {"books"} :
          raw1.query_params[f] = raw2.query_params[f]
    /\ \A b \in Range(raw1.query_params.books.str) \cup Range(raw2.query_params.books.str) :
          Count(raw1.query_params.books.str, b) = Count(raw2.query_params.books.str, b)

\* Request q was answered as a GET miss in this very second and cached its response.
CachedJustNow(q) ==
    /\ handler[q].pc = "done" /\ handler[q].use_cache
    /\ ~handler[q].response.cached
    /\ handler[q].response.error_stack = ""
    /\ handler[q].start_time = clock

\* C11: build_cache_key gives two GET requests that differ only in the order
\* of their books the same key, so the second one is served from the entry
\* the first one cached.
C11_PosEnvKeyIgnoresBookOrder ==
    [][\A h \in PeRequests, q \in PeRequests :
          (/\ handler[h].pc = "idle" /\ handler'[h].pc # "idle"
           /\ CachedJustNow(q)
           /\ SameQueryExceptBookOrder(handler[q].context.request_data,
                                       handler'[h].context.request_data)) =>
              /\ build_cache_key(handler[q].context.request_data)
                    = build_cache_key(handler'[h].context.request_data)
              /\ handler'[h].pc = "done"
              /\ handler'[h].response.cached]_vars

(***************************************************************************)
(* The warmup specification: server.main() launches the jobs of the        *)
(* configuration, each job loops over its ticks, reading the local time    *)
(* at each one.  The configuration is either config.WARMUP_CONFIGS or the  *)
(* same with a time_of_day that _validate rejects in its second job.       *)
(***************************************************************************)
ConfigInputs ==
    {SubSeq(WARMUP_CONFIGS, 1, 2),
     <<WARMUP_CONFIGS[1], [WARMUP_CONFIGS[2] EXCEPT !.time_of_day = "Live"]>>}

InitWarmup ==
    /\ call = NoCall
    /\ ret = NoRet
    /\ RcIdle
    /\ main = [pc |-> "launching", next |-> 1]
    /\ server_status = "starting"
    /\ warmup_configs \in ConfigInputs
    /\ warmup_status = EmptyMap
    /\ worker = [j \in JobNames |-> WorkerUnstarted]
    /\ request = [r \in Requests |-> RequestIdle]
    /\ orch = [c \in Callers |-> OrchIdle]
    /\ executor = [queue |-> <<>>, running |-> {}, futures |-> EmptyMap, since |-> EmptyMap]
    /\ cache = EmptyMap
    /\ runs = 0
    /\ broken = {}
    /\ fetcher_calls = [c \in Callers |-> NoCalls]
    /\ PeIdle
    /\ SqIdle

NextWarmup ==
    \/ Launch
    \/ SetServerRunning
    \/ StartIOLoop
    \/ \E j \in JobNames : BuildParams(j)
    \/ \E j \in JobNames, now \in TickTimes : TickCheck(j, now)
    \/ \E j \in JobNames : TickOutside(j)
    \/ \E j \in JobNames : TickRun(j)
    \/ \E j \in JobNames : TickRunFail(j)
    \/ \E j \in JobNames : TickWrite(j)
    \/ \E j \in JobNames : TickIdle(j)
    \/ \E j \in JobNames : TickSleep(j)
    \/ \E c \in JobNames : Submit(c)
    \/ WorkerStart
    \/ \E t \in JobNames \X SectionNames : WorkerFinish(t)
    \/ \E c \in JobNames : Await(c)

SpecWarmup == InitWarmup /\ [][NextWarmup]_vars

\* Job j leaves the place pc of its loop in this step.
Leaves(j, pc) == worker[j].pc = pc /\ worker'[j].pc # pc

\* C13: a tick that finds the time outside the window sets the status to
\* outside_window, dispatches no fetch, leaves the cache, last_run,
\* last_duration_ms and last_error as they were, and then sleeps for the
\* configured interval.
C13_OutsideWindowTick ==
    [][\A j \in JobNames :
          /\ (Leaves(j, "check") /\ ~warmup_status'[j].in_time_window) =>
                worker'[j].pc = "outside"
          /\ Leaves(j, "outside") =>
                /\ warmup_status'[j].status = "outside_window"
                /\ warmup_status'[j].last_run = warmup_status[j].last_run
                /\ warmup_status'[j].last_duration_ms = warmup_status[j].last_duration_ms
                /\ warmup_status'[j].last_error = warmup_status[j].last_error
                /\ cache' = cache
                /\ orch' = orch /\ orch[j] = OrchIdle
                /\ executor' = executor
                /\ fetcher_calls' = fetcher_calls
                /\ worker'[j].pc = "sleep"
          /\ (Leaves(j, "sleep") /\ warmup_status[j].status = "outside_window") =>
                /\ worker'[j].slept = ConfigOf(j).schedule.interval_seconds
                /\ worker'[j].pc = "check"
                /\ cache' = cache /\ orch' = orch /\ executor' = executor]_vars

\* C13 witness: a job that had a successful run, and so a last_run, has
\* since found itself outside its window and slept its interval.
C13_Witness ==
    \E j \in JobNames :
        /\ worker[j].pc = "check"
        /\ warmup_status[j].status = "outside_window"
        /\ ~warmup_status[j].in_time_window
        /\ warmup_status[j].last_run # None
        /\ worker[j].slept = ConfigOf(j).schedule.interval_seconds

\* The cache key of job j's fixed parameter set.
JobKey(j) ==
    LET cfg == ConfigOf(j)
    IN  <<cfg.env_date, cfg.pos_date, sorted(cfg.books), cfg.time_of_day>>

\* C14: an in-window tick whose orchestration succeeds sets the status to
\* running, runs the orchestration to completion, writes the aggregate to
\* the cache under the key of the job's parameters, and only then, in one
\* critical section, sets the status to idle, records last_run and
\* last_duration_ms and clears last_error.
C14_SuccessfulTickOrder ==
    [][\A j \in JobNames :
          /\ (j \in DOMAIN warmup_status /\ warmup_status[j].status # "running"
              /\ warmup_status'[j].status = "running") =>
                /\ worker[j].pc = "in_window"
                /\ warmup_status[j].in_time_window
                /\ orch[j] = OrchIdle
                /\ cache' = cache
          /\ (Leaves(j, "fetching") /\ orch[j].phase = "returned") =>
                /\ warmup_status[j].status = "running"
                /\ warmup_status' = warmup_status
                /\ DOMAIN orch[j].results = SectionNames
                /\ DOMAIN cache' = DOMAIN cache \cup {JobKey(j)}
                /\ cache'[JobKey(j)].sections = orch[j].results
                /\ \A k \in DOMAIN cache \ {JobKey(j)} : cache'[k] = cache[k]
                /\ worker'[j].pc = "written"
          /\ (j \in DOMAIN warmup_status /\ warmup_status[j].status # "idle"
              /\ warmup_status'[j].status = "idle") =>
                /\ worker[j].pc = "written"
                /\ warmup_status[j].status = "running"
                /\ JobKey(j) \in DOMAIN cache /\ cache' = cache
                /\ warmup_status'[j].last_run # None
                /\ warmup_status'[j].last_duration_ms = worker[j].duration_ms
                /\ warmup_status'[j].last_error = None
                /\ worker'[j].pc = "sleep"]_vars

\* C14 witness: a job that has slept after an earlier tick has completed a
\* successful tick: it is idle, its aggregate is cached and last_error is clear.
C14_Witness ==
    \E j \in JobNames :
        /\ j \in DOMAIN warmup_status
        /\ warmup_status[j].status = "idle"
        /\ warmup_status[j].last_run # None
        /\ warmup_status[j].last_error = None
        /\ JobKey(j) \in DOMAIN cache
        /\ DOMAIN cache[JobKey(j)].sections = SectionNames
        /\ worker[j].slept > 0

\* Job j holds a work item of the executor.
HoldsWorkItem(j) ==
    \/ \E i \in DOMAIN executor.queue : executor.queue[i][1] = j
    \/ \E t \in executor.running : t[1] = j
    \/ \E t \in DOMAIN executor.futures : t[1] = j

\* C15: a job whose parameters fail validation gets status config_error
\* with last_error set and leaves its loop; from then on it performs no
\* tick, dispatches no fetch, writes no cache entry, and its status stays
\* config_error.
C15_ConfigErrorIsFinal ==
    /\ [](\A j \in JobNames :
            worker[j].pc = "exited" =>
                /\ warmup_status[j].status = "config_error"
                /\ warmup_status[j].last_error # None
                /\ ~warmup_status[j].in_time_window
                /\ warmup_status[j].last_run = None
                /\ orch[j] = OrchIdle
                /\ fetcher_calls[j] = NoCalls
                /\ ~HoldsWorkItem(j)
                /\ JobKey(j) \notin DOMAIN cache)
    /\ [][\A j \in JobNames :
            /\ Leaves(j, "build") =>
                  IF build_from_dict(ConfigOf(j)).ok
                  THEN worker'[j].pc = "check" /\ warmup_status'[j] = warmup_status[j]
                  ELSE /\ worker'[j].pc = "exited"
                       /\ warmup_status'[j].status = "config_error"
                       /\ warmup_status'[j].last_error =
                             str_of(build_from_dict(ConfigOf(j)).error)
            /\ worker[j].pc = "exited" =>
                  /\ worker'[j] = worker[j]
                  /\ warmup_status'[j] = warmup_status[j]
                  /\ orch'[j] = orch[j]]_vars

\* C15 witness: a job has left its loop with config_error while another
\* job has gone on to complete a tick.
C15_Witness ==
    \E j \in JobNames, k \in JobNames :
        /\ worker[j].pc = "exited"
        /\ warmup_status[j].status = "config_error"
        /\ warmup_status[j].last_error # None
        /\ warmup_status[k].status = "idle"
        /\ worker[k].slept > 0

\* C16: once a job's parameters are built its loop never ends.  A tick
\* whose orchestration raises sets status error with last_error the
\* description of the failure and writes nothing; the loop then sleeps the
\* interval and performs the next tick, which on success sets idle and
\* clears last_error.
C16_ErrorTickRetries ==
    /\ [](\A j \in JobNames :
            /\ worker[j].pc = "exited" => ~build_from_dict(ConfigOf(j)).ok
            /\ worker[j].pc = "sleep" => ENABLED TickSleep(j)
            /\ (j \in DOMAIN warmup_status /\ warmup_status[j].status = "error") =>
                  /\ warmup_status[j].last_error # None
                  /\ worker[j].pc \in {"sleep", "check", "in_window", "outside"})
    /\ [][\A j \in JobNames :
            /\ (Leaves(j, "fetching") /\ orch[j].phase = "raised") =>
                  /\ warmup_status'[j].status = "error"
                  /\ warmup_status'[j].last_error = str_of(orch[j].exc)
                  /\ cache' = cache
                  /\ worker'[j].pc = "sleep"
            /\ Leaves(j, "sleep") =>
                  /\ worker'[j].pc = "check"
                  /\ worker'[j].slept = ConfigOf(j).schedule.interval_seconds
                  /\ warmup_status' = warmup_status
            /\ (j \in DOMAIN warmup_status /\ warmup_status[j].last_error # None
                /\ warmup_status[j].status # "config_error"
                /\ warmup_status'[j].status = "idle") =>
                  warmup_status'[j].last_error = None]_vars

\* C16 witness: a job whose tick failed has slept, run the next tick to a
\* successful cache write, and is about to report idle.
C16_Witness ==
    \E j \in JobNames :
        /\ worker[j].pc = "written"
        /\ worker[j].slept > 0
        /\ warmup_status[j].status = "running"
        /\ warmup_status[j].last_error = str_of("OSError: Too many open files")
        /\ JobKey(j) \in DOMAIN cache

(***************************************************************************)
(* The warmup jobs next to the request path: the two jobs' loops, as in    *)
(* the warmup specification, and one client that sends a GET once the      *)
(* server is up and some job has ended in error or config_error.  Job      *)
(* ticks and the request share the executor.                               *)
(***************************************************************************)
SomeJobFailed ==
    \E j \in DOMAIN warmup_status : warmup_status[j].status \in {"error", "config_error"}

NextIsolation ==
    \/ Launch
    \/ SetServerRunning
    \/ StartIOLoop
    \/ \E j \in JobNames : BuildParams(j)
    \/ \E j \in JobNames, now \in LoadTimes : TickCheck(j, now)
    \/ \E j \in JobNames : TickRun(j)
    \/ \E j \in JobNames : TickRunFail(j)
    \/ \E j \in JobNames : TickWrite(j)
    \/ \E j \in JobNames : TickIdle(j)
    \/ \E j \in JobNames : TickSleep(j)
    \/ \E raw \in LoadInputs : SomeJobFailed /\ Get("r1", raw)
    \/ GetFinish("r1")
    \/ \E c \in Callers : Submit(c)
    \/ WorkerStart
    \/ \E t \in Callers \X SectionNames : WorkerFinish(t)
    \/ \E c \in Callers : Await(c)

SpecIsolation == InitWarmup /\ [][NextIsolation]_vars

\* Job j's entry of the status table is written by the step.
EntryWritten(j) ==
    /\ j \in DOMAIN warmup_status'
    /\ (j \notin DOMAIN warmup_status \/ warmup_status'[j] # warmup_status[j])

\* Job j ends in error or config_error at the step.
EndsInFailure(j) ==
    /\ j \in DOMAIN warmup_status
    /\ warmup_status[j].status \notin {"error", "config_error"}
    /\ warmup_status'[j].status \in {"error", "config_error"}

\* C17: warmup jobs are isolated.  A status entry is written only by a step
\* of its own job (its launch or its loop), and that step writes no other
\* entry; the step at which a job ends in error or config_error changes no
\* other job's entry, loop position or orchestration, nor the requests,
\* their orchestrations, the executor or the cache; and a job in error or
\* config_error holds no work item of the executor.
C17_JobsIsolated ==
    /\ [][\A j \in JobNames :
            /\ EntryWritten(j) =>
                  /\ worker'[j] # worker[j]
                  /\ \A k \in JobNames \ {j} : ~EntryWritten(k) /\ worker'[k] = worker[k]
            /\ worker'[j] # worker[j] =>
                  \A k \in JobNames \ {j} : ~EntryWritten(k)
            /\ EndsInFailure(j) =>
                  /\ \A k \in JobNames \ {j} :
                        /\ worker'[k] = worker[k]
                        /\ orch'[k] = orch[k]
                        /\ fetcher_calls'[k] = fetcher_calls[k]
                  /\ request' = request
                  /\ \A r \in Requests : orch'[r] = orch[r]
                  /\ executor' = executor
                  /\ cache' = cache
                  /\ broken' = broken]_vars
    /\ [](\A j \in JobNames :
            (j \in DOMAIN warmup_status
             /\ warmup_status[j].status \in {"error", "config_error"}) =>
                /\ ~HoldsWorkItem(j)
                /\ orch[j] = OrchIdle)

\* C17 witness: both jobs have ended in a failure, one of them by its
\* configuration, and a request sent after a failure has completed an
\* orchestration of its own.
C17_Witness ==
    /\ \E j \in DOMAIN warmup_status, k \in DOMAIN warmup_status :
          /\ warmup_status[j].status = "config_error"
          /\ warmup_status[k].status = "error"
    /\ request["r1"].pc = "done"
    /\ request["r1"].response.status = 200
    /\ ~request["r1"].response.cache_hit
    /\ DOMAIN request["r1"].response.sections = SectionNames

\* C17 second witness: one job is in error while the other has completed a
\* tick and reports idle.
C17_WitnessOtherJob ==
    \E j \in DOMAIN warmup_status, k \in DOMAIN warmup_status :
        /\ warmup_status[j].status = "error"
        /\ warmup_status[k].status = "idle"
        /\ warmup_status[k].last_run # None

\* Every configured job has its status entry and its loop has been launched.
AllLaunched ==
    \A i \in 1..Len(warmup_configs) :
        /\ warmup_configs[i].name \in DOMAIN warmup_status
        /\ worker[warmup_configs[i].name].pc # "unstarted"

\* C18: the server status is starting as long as start_all_warmup_workers
\* is creating entries and launching loops; once every configured job has
\* its entry and its loop it becomes running, in one step that changes no
\* job, whatever the jobs are doing; it changes at no other step, so it
\* never returns to starting.
C18_ServerStatusOnce ==
    /\ [](/\ server_status \in {"starting", "running"}
          /\ server_status = "starting" <=> main.pc = "launching"
          /\ server_status = "running" => AllLaunched
          /\ (main.pc = "launching" /\ AllLaunched) => ENABLED SetServerRunning)
    /\ [][/\ server_status' # server_status =>
                /\ server_status = "starting" /\ server_status' = "running"
                /\ AllLaunched
                /\ warmup_status' = warmup_status
                /\ worker' = worker
          /\ server_status = "running" => server_status' = "running"]_vars

\* C18 witness: the server is running while no job has built its
\* parameters yet, let alone finished a tick.
C18_Witness ==
    /\ server_status = "running"
    /\ Len(warmup_configs) = 2
    /\ \A i \in 1..Len(warmup_configs) :
          /\ worker[warmup_configs[i].name].pc = "build"
          /\ warmup_status[warmup_configs[i].name].status = "starting"
          /\ warmup_status[warmup_configs[i].name].last_run = None

(***************************************************************************)
(* The /status endpoint.  A per-job entry of _warmup_status is a dict      *)
(* object that the job's loop updates in place; a reference to it is       *)
(* modelled by the job's name, and looking through the reference reads     *)
(* the entry as it is at that moment.                                      *)
(***************************************************************************)
\* get_server_status
get_server_status == server_status

\* get_warmup_status: dict(_warmup_status), a new outer dict that holds the
\* per-job dict objects of the registry.
get_warmup_status == [n \in DOMAIN warmup_status |-> [ref |-> n]]

\* The contents of a dict returned by get_warmup_status, as a reader sees
\* them now.
contents(d) == [n \in DOMAIN d |-> warmup_status[d[n].ref]]

\* get_cache_info
get_cache_info ==
    [size |-> Cardinality(DOMAIN cache),
     entries |-> {[key |-> k, cached_at |-> cache[k].cached_at] : k \in DOMAIN cache}]

\* StatusHandler.get: the response dict is built.
StatusGet ==
    /\ main.pc = "serving"
    /\ status_query.pc = "idle"
    /\ status_query' = [status_query EXCEPT
                           !.pc = "built",
                           !.response = [server_status |-> get_server_status,
                                         warmup_threads |-> get_warmup_status,
                                         cache |-> get_cache_info],
                           !.returned = contents(get_warmup_status)]
    /\ UNCHANGED <<pureVars, rcVars, psVars, peVars>>

\* StatusHandler.get: self.write(response) encodes the dict as JSON.
StatusWrite ==
    /\ status_query.pc = "built"
    /\ status_query' = [status_query EXCEPT
                           !.pc = "done",
                           !.body = [status_query.response EXCEPT
                                        !.warmup_threads = contents(@)]]
    /\ UNCHANGED <<pureVars, rcVars, psVars, peVars>>

InitStatus ==
    /\ call = NoCall
    /\ ret = NoRet
    /\ RcIdle
    /\ main = [pc |-> "launching", next |-> 1]
    /\ server_status = "starting"
    /\ warmup_configs = SubSeq(WARMUP_CONFIGS, 1, 1)
    /\ warmup_status = EmptyMap
    /\ worker = [j \in JobNames |-> WorkerUnstarted]
    /\ request = [r \in Requests |-> RequestIdle]
    /\ orch = [c \in Callers |-> OrchIdle]
    /\ executor = [queue |-> <<>>, running |-> {}, futures |-> EmptyMap, since |-> EmptyMap]
    /\ cache = EmptyMap
    /\ runs = 0
    /\ broken = {}
    /\ fetcher_calls = [c \in Callers |-> NoCalls]
    /\ PeIdle
    /\ SqIdle

NextStatus ==
    \/ Launch
    \/ SetServerRunning
    \/ StartIOLoop
    \/ \E j \in JobNames : BuildParams(j)
    \/ \E j \in JobNames, now \in TickTimes : TickCheck(j, now)
    \/ \E j \in JobNames : TickOutside(j)
    \/ \E j \in JobNames : TickRun(j)
    \/ \E j \in JobNames : TickWrite(j)
    \/ \E j \in JobNames : TickIdle(j)
    \/ \E j \in JobNames : TickSleep(j)
    \/ \E c \in JobNames : Submit(c)
    \/ WorkerStart
    \/ \E t \in JobNames \X SectionNames : WorkerFinish(t)
    \/ \E c \in JobNames : Await(c)
    \/ StatusGet
    \/ StatusWrite

SpecStatus == InitStatus /\ [][NextStatus]_vars

\* C19: the value get_warmup_status returned to a status query stays what
\* it was when it was returned, whatever the job loops do afterwards, up to
\* and including the moment the response is written.
C19_SnapshotStable ==
    /\ status_query.pc = "built" =>
          contents(status_query.response.warmup_threads) = status_query.returned
    /\ status_query.pc = "done" =>
          status_query.body.warmup_threads = status_query.returned

\* The step is caller c's write_to_cache: a warmup tick's, or a GET's.
Writes(c) ==
    /\ orch[c].phase = "returned"
    /\ IF c \in JobNames
       THEN Leaves(c, "fetching")
       ELSE request[c].method = "GET" /\ request[c].pc = "fetching" /\ request'[c].pc = "done"

\* The key caller c writes under.
KeyOf(c) == IF c \in JobNames THEN JobKey(c) ELSE request[c].cache_key

\* The orchestration run that produced an aggregate.
RunOf(sections) == sections["futures"].metadata.last_updated.utc

\* C20: a cache write replaces the entry of its one key by the writer's own
\* aggregate, whatever was there and whichever orchestration started first,
\* and leaves every other entry alone; the cache changes at no other step,
\* so after a race the entry is the aggregate of the write that came last.
C20_LastWriteWins ==
    [][/\ \A c \in Callers :
             Writes(c) =>
                /\ DOMAIN cache' = DOMAIN cache \cup {KeyOf(c)}
                /\ cache'[KeyOf(c)].sections = orch[c].results
                /\ \A k \in DOMAIN cache \ {KeyOf(c)} : cache'[k] = cache[k]
       /\ cache' # cache => \E c \in Callers : Writes(c)]_vars

\* C20 witness: a GET and a warmup tick raced on one key; the tick's
\* orchestration started first and its write came last, and the entry is
\* the tick's aggregate, not the GET's.
C20_Witness ==
    \E r \in Requests, j \in JobNames :
        /\ request[r].pc = "done" /\ request[r].method = "GET"
        /\ request[r].response.status = 200
        /\ ~request[r].response.cache_hit
        /\ worker[j].pc = "written"
        /\ request[r].cache_key = JobKey(j)
        /\ orch[j].run < RunOf(request[r].response.sections)
        /\ cache[JobKey(j)].sections = orch[j].results
        /\ cache[JobKey(j)].sections # request[r].response.sections

\* C20 second witness: the same race, the GET's orchestration having
\* started first and its write having come last.
C20_WitnessRequestLast ==
    \E r \in Requests, j \in JobNames :
        /\ request[r].pc = "done" /\ request[r].method = "GET"
        /\ request[r].response.status = 200
        /\ ~request[r].response.cache_hit
        /\ worker[j].pc = "written"
        /\ request[r].cache_key = JobKey(j)
        /\ RunOf(request[r].response.sections) < orch[j].run
        /\ cache[JobKey(j)].sections = request[r].response.sections
        /\ cache[JobKey(j)].sections # orch[j].results

\* The work items of caller c that were submitted and not yet awaited.
Pending(c) ==
    IF orch[c].phase \in {"submitting", "collecting"}
    THEN {<<c, orch[c].futures_map[i]>> :
             i \in (Cardinality(DOMAIN orch[c].results) + 1)..Len(orch[c].futures_map)}
    ELSE {}

\* The work items the pool holds: queued, running, or finished and unread.
Held(ex) == Range(ex.queue) \cup ex.running \cup DOMAIN ex.futures

\* C21: at most max_workers section fetches execute at once, over all
\* requests and warmup ticks; a submission is always accepted and joins the
\* tail of the queue; a queued item leaves the queue only from its head and
\* only to a worker; and every item submitted and not yet awaited is in the
\* queue, running or finished: none is rejected or dropped.
C21_PoolBoundsFetches ==
    /\ [](/\ Cardinality(executor.running) <= max_workers
          /\ \A c \in Callers : Pending(c) \subseteq Held(executor)
          /\ \A i \in DOMAIN executor.queue :
                /\ executor.queue[i] \notin executor.running
                /\ executor.queue[i] \notin DOMAIN executor.futures)
    /\ [][/\ \A c \in Callers :
                (orch[c].phase = "submitting" /\ orch'[c].futures_map # orch[c].futures_map) =>
                    /\ Len(executor'.queue) = Len(executor.queue) + 1
                    /\ SubSeq(executor'.queue, 1, Len(executor.queue)) = executor.queue
                    /\ executor'.queue[Len(executor'.queue)] =
                          <<c, orch'[c].futures_map[Len(orch'[c].futures_map)]>>
                    /\ executor'.running = executor.running
          /\ Len(executor'.queue) < Len(executor.queue) =>
                /\ executor'.queue = Tail(executor.queue)
                /\ executor'.running = executor.running \cup {Head(executor.queue)}
                /\ Cardinality(executor.running) < max_workers]_vars

\* C21 witness: every worker is busy with a fetch and two more submissions,
\* one of a request and one of a warmup tick, wait in the queue.
C21_Witness ==
    /\ Cardinality(executor.running) = max_workers
    /\ Len(executor.queue) >= 2
    /\ \E i \in DOMAIN executor.queue : executor.queue[i][1] \in Requests
    /\ \E i \in DOMAIN executor.queue : executor.queue[i][1] \in JobNames

\* The records the store holds for /pos_env request h.
SavesOf(h) == {i \in DOMAIN store : store[i].request_id = h}

\* C22: a /pos_env request whose response has been written, a GET answered
\* from the cache included, has exactly one record in the store, and the
\* record was there before the response: no save follows a response.
C22_EveryRequestSavedOnce ==
    /\ [](\A h \in PeRequests :
            /\ Cardinality(SavesOf(h)) <= 1
            /\ handler[h].pc = "done" => Cardinality(SavesOf(h)) = 1)
    /\ [][\A h \in PeRequests :
            handler[h].pc = "done" => handler'[h] = handler[h]]_vars

\* Caller c's call was given parameters for a section that fetch_all_sections
\* does not configure.
NamesUnknownSection(c) == ~(DOMAIN orch[c].section_params \subseteq SectionNames)

\* C23: a fetch_all_sections call whose section_params names a section that
\* is not configured submits no section to the pool, has no section fetcher
\* invoked and returns no aggregate.
C23_UnknownSectionRejected ==
    \A c \in Callers :
        NamesUnknownSection(c) =>
            /\ orch[c].futures_map = <<>>
            /\ orch[c].phase # "returned"
            /\ fetcher_calls[c] = NoCalls

\* Request r begins a POST with valid parameters in this step.
PostBegins(r) ==
    /\ request[r].pc = "idle" /\ request'[r].pc # "idle"
    /\ request'[r].method = "POST" /\ request'[r].params # NoParams

\* The step is one of request r's POST: of its handler or of its orchestration.
PostSteps(r) ==
    /\ request'[r].method = "POST"
    /\ request'[r] # request[r] \/ orch'[r] # orch[r]

\* C24: a POST never reads or writes the cache.  It starts an orchestration
\* whether or not the cache holds an entry for its parameters, none of its
\* steps changes the cache, and its response reports no cache hit and comes
\* from one invocation of every section fetcher.
C24_PostBypassesCache ==
    /\ [][\A r \in Requests :
            /\ PostBegins(r) =>
                  /\ request'[r].pc = "fetching"
                  /\ orch'[r].phase = "submitting"
                  /\ orch'[r].run = runs + 1
            /\ PostSteps(r) => cache' = cache]_vars
    /\ [](\A r \in Requests :
            (request[r].pc = "done" /\ request[r].method = "POST"
             /\ ~request[r].response.error) =>
                /\ ~request[r].response.cache_hit
                /\ fetcher_calls[r] = [n \in SectionNames |-> 1]
                /\ DOMAIN request[r].response.sections = SectionNames)

\* C24 witness: a POST has been answered while the cache held an entry for
\* its parameters; its sections come from its own orchestration and the
\* entry is still the older aggregate.
C24_Witness ==
    \E r \in Requests :
        /\ request[r].pc = "done" /\ request[r].method = "POST"
        /\ ~request[r].response.error
        /\ ~request[r].response.cache_hit
        /\ to_cache_key(request[r].params) \in DOMAIN cache
        /\ cache[to_cache_key(request[r].params)].sections # request[r].response.sections
        /\ fetcher_calls[r] = [n \in SectionNames |-> 1]

\* The /pos_env side of C24: a step of a request handled with use_cache
\* false leaves the caches alone, and its response is not marked cached.
C24_PosEnvPostBypassesCache ==
    /\ [][\A h \in PeRequests :
            (handler'[h] # handler[h] /\ ~handler'[h].use_cache) => caches' = caches]_vars
    /\ [](\A h \in PeRequests :
            (handler[h].pc = "done" /\ ~handler[h].use_cache) => ~handler[h].response.cached)

\* Request r is received in this step and its parameters fail _validate.
RejectedOnArrival(r) ==
    /\ request[r].pc = "idle" /\ request'[r].pc # "idle"
    /\ ~_validate(request'[r].raw.env_date, request'[r].raw.pos_date,
                  request'[r].raw.books, request'[r].raw.time_of_day).ok

\* C25: a position-server request whose parameters fail validation is
\* answered at once with an error response that carries no sections and no
\* cache hit; the step starts no orchestration, submits nothing to the pool,
\* invokes no fetcher and leaves the cache as it was.
C25_InvalidRequestStopsEarly ==
    /\ [][\A r \in Requests :
            RejectedOnArrival(r) =>
                /\ request'[r].pc = "done"
                /\ request'[r].response.error
                /\ request'[r].response.status = 400
                /\ request'[r].response.error_stack # ""
                /\ ~request'[r].response.cache_hit
                /\ request'[r].response.sections = None
                /\ cache' = cache
                /\ orch' = orch
                /\ executor' = executor
                /\ runs' = runs
                /\ fetcher_calls' = fetcher_calls]_vars
    /\ [](\A r \in Requests :
            (request[r].pc # "idle"
             /\ ~_validate(request[r].raw.env_date, request[r].raw.pos_date,
                           request[r].raw.books, request[r].raw.time_of_day).ok) =>
                /\ request[r].pc = "done"
                /\ orch[r] = OrchIdle
                /\ fetcher_calls[r] = NoCalls
                /\ ~HoldsWorkItem(r))

\* C25 witness: a GET and a POST with an invalid time_of_day have both been
\* answered with an error; nothing was fetched and the cache is empty.
C25_Witness ==
    \E r \in Requests, q \in Requests :
        /\ request[r].pc = "done" /\ request[r].method = "GET"
        /\ request[q].pc = "done" /\ request[q].method = "POST"
        /\ request[r].response.error /\ request[q].response.error
        /\ request[r].raw.time_of_day = "Live" /\ request[q].raw.time_of_day = "Live"
        /\ cache = EmptyMap
        /\ runs = 0

\* p1 and p2 are equal once the books are taken as unordered sets.
SameUpToBookSet(p1, p2) ==
    /\ p1.env_date = p2.env_date
    /\ p1.pos_date = p2.pos_date
    /\ p1.time_of_day = p2.time_of_day
    /\ Range(p1.books) = Range(p2.books)

\* C26: two validated parameter sets have the same cache key if and only if
\* env_date, pos_date and time_of_day are equal and the books are equal as
\* sets, whatever the order and the repetitions in the two lists.
C26_KeyIffSameBookSet ==
    (ret.fn = "to_cache_key" /\ ret.v1.ok /\ ret.v2.ok)
    => (ret.k1 = ret.k2 <=> SameUpToBookSet(ret.v1.params, ret.v2.params))

\* What run_section returns for section name in caller c's current call.
OwnResult(c, name) ==
    run_section(FetcherOf(name), orch[c].params,
                ParamsForSection(orch[c].section_params, name),
                TimeoutOf(name), orch[c].run, 0).value

\* C27: in a fetch_all_sections call nothing is awaited while sections are
\* still being submitted; the collect loop starts with every section
\* submitted and takes a result only from a finished run of the call's own
\* submission; and the call returns with one result per section, each the
\* one its own run_section produced, no item of the call being left in the
\* pool.
C27_SubmitAllThenAwaitAll ==
    /\ [](\A c \in Callers :
            /\ orch[c].phase = "submitting" =>
                  /\ orch[c].results = EmptyMap
                  /\ Len(orch[c].futures_map) < Len(Sections)
            /\ orch[c].phase = "collecting" =>
                  /\ orch[c].futures_map = Sections
                  /\ \A n \in DOMAIN orch[c].results : orch[c].results[n] = OwnResult(c, n)
            /\ orch[c].phase = "returned" =>
                  /\ DOMAIN orch[c].results = SectionNames
                  /\ \A n \in SectionNames : orch[c].results[n] = OwnResult(c, n)
                  /\ fetcher_calls[c] = [n \in SectionNames |-> 1]
                  /\ ~HoldsWorkItem(c))
    /\ [][\A c \in Callers :
            (orch[c].phase = "collecting" /\ orch'[c] # orch[c]) =>
                \E n \in SectionNames :
                    /\ <<c, n>> \in DOMAIN executor.futures
                    /\ DOMAIN executor'.futures = DOMAIN executor.futures \ {<<c, n>>}
                    /\ DOMAIN orch'[c].results = DOMAIN orch[c].results \cup {n}]_vars

\* C27 witness: two calls of different runs have both returned, each with
\* its own results, and the two aggregates differ.
C27_Witness ==
    \E c \in Callers, d \in Callers :
        /\ orch[c].phase = "returned" /\ orch[d].phase = "returned"
        /\ orch[c].run < orch[d].run
        /\ orch[c].results # orch[d].results
        /\ \A n \in SectionNames : orch[c].results[n] = OwnResult(c, n)
        /\ \A n \in SectionNames : orch[d].results[n] = OwnResult(d, n)

\* What run_section returns for section name in caller c's current call when
\* the section is given the parameters p.
ResultWith(c, name, p) ==
    run_section(FetcherOf(name), orch[c].params, p, TimeoutOf(name), orch[c].run, 0).value

\* C28: whatever section_params a fetch_all_sections call was given (none,
\* the empty mapping, parameters for one section, parameters for a section
\* that is not configured), its result has the configured sections as its
\* keys and no other; a section that was given parameters was run with
\* them, and every other section was run with the empty mapping.
C28_OneEntryPerSection ==
    \A c \in Callers :
        orch[c].phase = "returned" =>
            /\ DOMAIN orch[c].results = SectionNames
            /\ \A n \in SectionNames :
                  IF n \in DOMAIN orch[c].section_params
                  THEN orch[c].results[n] = ResultWith(c, n, orch[c].section_params[n])
                  ELSE orch[c].results[n] = ResultWith(c, n, "empty")

\* C28 witness: a call given parameters for futures only has returned; the
\* futures section was run with them and the bonds section with none.
C28_Witness ==
    \E c \in Callers :
        /\ orch[c].phase = "returned"
        /\ DOMAIN orch[c].section_params = {"futures"}
        /\ DOMAIN orch[c].results = SectionNames
        /\ orch[c].results["futures"].metadata.status = "ok"
        /\ orch[c].results["futures"].data.option = "overrides"
        /\ orch[c].results["bonds"].metadata.status = "ok"
        /\ orch[c].results["bonds"].data.option = "empty"

\* C28 second witness: a call given no section_params at all (a GET) has
\* returned with both sections run on the empty mapping.
C28_WitnessAbsent ==
    \E r \in Requests :
        /\ orch[r].phase = "returned"
        /\ request[r].method = "GET"
        /\ orch[r].section_params = EmptyMap
        /\ \A n \in SectionNames :
              /\ orch[r].results[n].metadata.status = "ok"
              /\ orch[r].results[n].data.option = "empty"

(***************************************************************************)
(* A fetcher that hangs: the request-path specification, in which the      *)
(* fetcher of one running work item stays in its call for longer than the  *)
(* section's timeout before it returns.  One such hang is followed.        *)
(***************************************************************************)
\* The seconds work item task has been running.
RunningFor(task) == clock - executor.since[task]

Hang(task) ==
    /\ task \in executor.running
    /\ clock <= TimeoutOf(task[2])
    /\ clock' = clock + TimeoutOf(task[2]) + 1
    /\ UNCHANGED <<caches, written, pureVars, psVars, peVars, sqVars>>

NextHang ==
    \/ Next
    \/ \E t \in Callers \X SectionNames : Hang(t)

SpecHang == Init /\ [][NextHang]_vars

\* C29: the timeout given to run_section changes nothing.  Whatever the
\* timeout and however long the fetcher takes, run_section returns what it
\* returns for the configured timeout; a running work item leaves its worker
\* only when its fetcher returns, however long it has been running; and
\* while an item of a call is queued or running the call has not returned
\* and its request has not been answered.
C29_TimeoutNotEnforced ==
    /\ [](\A c \in Callers, n \in SectionNames, t \in TimeoutBudgets, k \in FetchTimes :
            orch[c].phase # "idle" =>
                run_section(FetcherOf(n), orch[c].params,
                            ParamsForSection(orch[c].section_params, n), t, orch[c].run, k)
                = run_section(FetcherOf(n), orch[c].params,
                              ParamsForSection(orch[c].section_params, n),
                              TimeoutOf(n), orch[c].run, k))
    /\ [](\A task \in Range(executor.queue) \cup executor.running :
            /\ orch[task[1]].phase \in {"submitting", "collecting"}
            /\ task[1] \in Requests => request[task[1]].pc = "fetching")
    /\ [][\A task \in executor.running :
            \/ task \in executor'.running /\ executor'.since[task] = executor.since[task]
            \/ /\ task \in DOMAIN executor'.futures
               /\ fetcher_calls'[task[1]][task[2]] = fetcher_calls[task[1]][task[2]] + 1]_vars

\* C29 witness: a fetcher has been running for longer than its section's
\* timeout; it still holds its worker and its request is still waiting.
C29_Witness ==
    \E task \in executor.running :
        /\ RunningFor(task) > TimeoutOf(task[2])
        /\ task[1] \in Requests
        /\ request[task[1]].pc = "fetching"
        /\ orch[task[1]].phase = "collecting"

\* Every section of the aggregate was produced by orchestration run n.
FromRun(sections, n) ==
    \A name \in DOMAIN sections :
        /\ sections[name].metadata.status = "ok"
        /\ sections[name].metadata.last_updated = isoformat(n)

\* C30: every cache entry holds one result per section, all of them produced
\* by the same orchestration run; and a step that changes the cache changes
\* the entry of one key only, to the whole aggregate of one call that has
\* returned.
C30_EntriesAreSingleRun ==
    /\ [](\A k \in DOMAIN cache :
            /\ DOMAIN cache[k].sections = SectionNames
            /\ \E n \in 1..runs : FromRun(cache[k].sections, n))
    /\ [][cache' # cache =>
            \E k \in DOMAIN cache', c \in Callers :
                /\ orch[c].phase = "returned"
                /\ cache'[k].sections = orch[c].results
                /\ FromRun(cache'[k].sections, orch[c].run)
                /\ DOMAIN cache' = DOMAIN cache \cup {k}
                /\ \A j \in DOMAIN cache \ {k} : cache'[j] = cache[j]]_vars

\* C30 witness: three orchestration runs on the same parameters overlapped,
\* two have written the entry one after the other and the third has
\* returned; the entry is the aggregate of one run, and not that of the
\* run that is about to replace it.
C30_Witness ==
    \E k \in DOMAIN cache, c \in Callers, r \in Requests :
        /\ orch[c].phase = "returned"
        /\ KeyOf(c) = k
        /\ request[r].pc = "done" /\ request[r].method = "GET"
        /\ ~request[r].response.cache_hit
        /\ request[r].cache_key = k
        /\ \E n \in 1..runs :
              /\ FromRun(cache[k].sections, n)
              /\ n # orch[c].run
              /\ ~FromRun(request[r].response.sections, n)

\* Job j has completed a tick successfully.
TickSucceeded(j) == j \in DOMAIN warmup_status /\ warmup_status[j].last_run # None

\* The orchestration run of the aggregate that job j wrote last.
LastWarmupRun(j) ==
    IF worker[j].pc = "written" THEN orch[j].run ELSE warmup_status[j].last_run.utc

\* No GET has written the cache or is on its way to: the entries are warmup's.
NoRequestMiss ==
    \A q \in Requests :
        /\ request[q].pc # "fetching"
        /\ request[q].pc = "done" => request[q].response.cache_hit

TickEnds(j) ==
    \/ Leaves(j, "outside")
    \/ Leaves(j, "fetching") /\ orch[j].phase = "raised"
    \/ Leaves(j, "written")

\* The work items of job j in the executor, per section.
WorkItemsOf(j, name) ==
    Cardinality({i \in DOMAIN executor.queue : executor.queue[i] = <<j, name>>})
    + (IF <<j, name>> \in executor.running THEN 1 ELSE 0)
    + (IF <<j, name>> \in DOMAIN executor.futures THEN 1 ELSE 0)

\* C32: a job has at most one orchestration in flight: one begins only in
\* the in-window branch of a tick, when the job's previous one is over and
\* has left nothing in the executor, and the job never has more than one
\* work item per section; and every tick, outside the window, failed or
\* successful, ends in the one sleep of the loop, which lasts the job's
\* interval, changes nothing, and is followed by the next window check, the
\* only way into a window check after the first.
C32_OneTickAtATime ==
    /\ [](\A j \in JobNames :
            /\ orch[j].phase # "idle" => worker[j].pc \in {"fetching", "written"}
            /\ worker[j].pc \notin {"fetching", "written"} => ~HoldsWorkItem(j)
            /\ \A name \in SectionNames : WorkItemsOf(j, name) <= 1)
    /\ [][\A j \in JobNames :
            /\ (orch'[j].run # orch[j].run /\ orch'[j].run # 0) =>
                  /\ worker[j].pc = "in_window"
                  /\ orch[j] = OrchIdle
                  /\ ~HoldsWorkItem(j)
            /\ TickEnds(j) =>
                  /\ worker'[j].pc = "sleep"
                  /\ orch'[j] = OrchIdle
            /\ Leaves(j, "sleep") =>
                  /\ worker'[j].pc = "check"
                  /\ worker'[j].slept = ConfigOf(j).schedule.interval_seconds
                  /\ warmup_status' = warmup_status
                  /\ cache' = cache /\ orch' = orch /\ executor' = executor
            /\ (worker[j].pc # "check" /\ worker'[j].pc = "check") =>
                  worker[j].pc \in {"build", "sleep"}
            /\ (worker[j].pc = "check" /\ worker'[j].pc # "check") =>
                  worker'[j].pc \in {"in_window", "outside"}]_vars

\* C32 witness: a job has had a successful tick, then a failed one, then one
\* outside its window, has slept its interval after the last and is at the
\* next window check with nothing in flight.
C32_Witness ==
    \E j \in JobNames :
        /\ worker[j].pc = "check"
        /\ worker[j].slept = ConfigOf(j).schedule.interval_seconds
        /\ warmup_status[j].status = "outside_window"
        /\ warmup_status[j].last_run # None
        /\ warmup_status[j].last_error = str_of("OSError: Too many open files")
        /\ orch[j] = OrchIdle
        /\ ~HoldsWorkItem(j)

\* Request q is a GET that has looked up key and has not yet written it.
RefreshInFlight(q, key) ==
    /\ request[q].pc = "fetching" /\ request[q].method = "GET"
    /\ request[q].cache_key = key

\* C33: a GET whose lookup finds no entry is a miss whatever refreshes of
\* the same key are in flight: it begins an orchestration of its own, and
\* when that has returned the request has had every section fetcher invoked
\* once on its own account and writes its own aggregate to the cache; so
\* requests that all looked up before any of them wrote all miss, fetch and
\* write.
C33_NoRefreshDeduplication ==
    /\ [](\A q, r \in Requests :
            (q # r /\ RefreshInFlight(q, request[r].cache_key)
                /\ RefreshInFlight(r, request[r].cache_key)) =>
                  /\ orch[q].phase # "idle" /\ orch[r].phase # "idle"
                  /\ orch[q].run # orch[r].run)
    /\ [][\A r \in Requests :
            /\ (GetBegins(r) /\ request'[r].cache_key \notin DOMAIN cache) =>
                  /\ request'[r].pc = "fetching"
                  /\ orch'[r].phase = "submitting"
                  /\ orch'[r].run = runs + 1 /\ runs' = runs + 1
                  /\ fetcher_calls'[r] = NoCalls
                  /\ cache' = cache
            /\ (GetMissAnswered(r) /\ orch[r].phase = "returned") =>
                  /\ \A name \in SectionNames : fetcher_calls[r][name] = 1
                  /\ ~request'[r].response.cache_hit
                  /\ request'[r].response.sections = orch[r].results
                  /\ cache'[request[r].cache_key].sections = orch[r].results]_vars

\* C33 witness: two GETs for one key both looked up before either wrote;
\* both were answered as misses, each with the aggregate of its own run and
\* each section fetcher invoked once for each, and the cache was written
\* twice: it holds the aggregate of one of them, which is not the other's.
C33_Witness ==
    /\ broken = {}
    /\ \A r \in Requests :
          /\ request[r].pc = "done" /\ request[r].method = "GET"
          /\ request[r].response.status = 200
          /\ ~request[r].response.cache_hit
          /\ \A name \in SectionNames : fetcher_calls[r][name] = 1
    /\ request["r1"].cache_key = request["r2"].cache_key
    /\ RunOf(request["r1"].response.sections) # RunOf(request["r2"].response.sections)
    /\ cache[request["r1"].cache_key].sections = request["r1"].response.sections
    /\ RunOf(request["r1"].response.sections) < RunOf(request["r2"].response.sections)

(***************************************************************************)
(* The load specification with fetchers that fail: as above, any of the    *)
(* section fetchers raising at every invocation.                           *)
(***************************************************************************)
InitErrors ==
    /\ call = NoCall
    /\ ret = NoRet
    /\ RcIdle
    /\ main = [pc |-> "launching", next |-> 1]
    /\ server_status = "starting"
    /\ warmup_configs = SubSeq(WARMUP_CONFIGS, 1, 1)
    /\ warmup_status = EmptyMap
    /\ worker = [j \in JobNames |-> WorkerUnstarted]
    /\ request = [r \in Requests |-> RequestIdle]
    /\ orch = [c \in Callers |-> OrchIdle]
    /\ executor = [queue |-> <<>>, running |-> {}, futures |-> EmptyMap, since |-> EmptyMap]
    /\ cache = EmptyMap
    /\ runs = 0
    /\ broken \in SUBSET SectionNames
    /\ fetcher_calls = [c \in Callers |-> NoCalls]
    /\ PeIdle
    /\ SqIdle

SpecErrors == InitErrors /\ [][NextLoad]_vars

\* Some section of the aggregate has status error.
HasErrorSection(sections) ==
    \E name \in DOMAIN sections : sections[name].metadata.status = "error"

\* C34: every orchestration that returns has its aggregate written to the
\* cache under the caller's key by the GET miss path and by the warmup tick
\* alike, whatever the statuses of its sections; a GET that finds an entry
\* is answered as a hit with that entry, error sections included, and
\* fetches nothing; and an entry is never removed and changes only when a
\* write to its key replaces it.
C34_ErrorAggregatesAreCached ==
    [][/\ \A c \in Callers :
             (orch[c].phase = "returned" /\ orch'[c].phase # "returned") =>
                /\ Writes(c)
                /\ KeyOf(c) \in DOMAIN cache'
                /\ cache'[KeyOf(c)].sections = orch[c].results
                /\ HasErrorSection(cache'[KeyOf(c)].sections) <=> broken # {}
       /\ \A r \in Requests :
             (GetBegins(r) /\ request'[r].cache_key \in DOMAIN cache) =>
                /\ request'[r].pc = "done"
                /\ request'[r].response.status = 200
                /\ request'[r].response.cache_hit
                /\ request'[r].response.sections = cache[request'[r].cache_key].sections
                /\ orch' = orch /\ executor' = executor /\ cache' = cache
       /\ \A k \in DOMAIN cache :
             /\ k \in DOMAIN cache'
             /\ cache'[k] # cache[k] => \E c \in Callers : Writes(c) /\ KeyOf(c) = k]_vars

\* C34 witness: the warmup tick has cached an aggregate with an error
\* section, no request has fetched anything, and a GET has been answered
\* with that aggregate as a cache hit.
C34_Witness ==
    \E r \in Requests, j \in JobNames :
        /\ TickSucceeded(j)
        /\ NoRequestMiss
        /\ HasErrorSection(cache[JobKey(j)].sections)
        /\ request[r].pc = "done" /\ request[r].method = "GET"
        /\ request[r].response.status = 200
        /\ request[r].response.cache_hit
        /\ request[r].response.sections = cache[JobKey(j)].sections
        /\ \E name \in SectionNames :
              /\ request[r].response.sections[name].metadata.status = "error"
              /\ request[r].response.sections[name].data = None

\* C34 second witness: a GET on the miss path has cached an aggregate with
\* an error section before any warmup tick wrote, and the next GET has been
\* answered with it as a cache hit.
C34_WitnessGetMiss ==
    \E q, r \in Requests :
        /\ \A j \in DOMAIN warmup_status :
              warmup_status[j].last_run = None /\ worker[j].pc # "written"
        /\ request[q].pc = "done" /\ request[q].method = "GET"
        /\ ~request[q].response.cache_hit /\ request[q].response.status = 200
        /\ HasErrorSection(request[q].response.sections)
        /\ request[r].pc = "done" /\ request[r].method = "GET"
        /\ request[r].response.cache_hit
        /\ request[r].response.sections = request[q].response.sections

\* C35: in every value get_warmup_status returns to a status query, each
\* job's status and in_time_window flag agree: status running implies
\* in_time_window is true, and status outside_window implies it is false.
C35_StatusAgreesWithWindow ==
    status_query.pc # "idle" =>
        \A j \in DOMAIN status_query.returned :
            /\ status_query.returned[j].status = "running" =>
                  status_query.returned[j].in_time_window
            /\ status_query.returned[j].status = "outside_window" =>
                  ~status_query.returned[j].in_time_window

\* The half of C35 that the loop keeps: a job reported as running is
\* reported as inside its window.
C35_RunningIsInWindow ==
    status_query.pc # "idle" =>
        \A j \in DOMAIN status_query.returned :
            status_query.returned[j].status = "running" =>
                status_query.returned[j].in_time_window

\* C36: in every state a job with status idle has no last_error and has a
\* last_run and a last_duration_ms, and a job with status starting has
\* none of the three; last_run and last_duration_ms are written together,
\* and only by the last critical section of a successful tick: an error
\* tick, an outside-window tick and every other step leave them as the last
\* successful tick set them.
C36_StatusFieldsConsistent ==
    /\ [](\A j \in DOMAIN warmup_status :
            /\ warmup_status[j].status = "idle" =>
                  /\ warmup_status[j].last_error = None
                  /\ warmup_status[j].last_run # None
            /\ warmup_status[j].status = "starting" =>
                  /\ warmup_status[j].last_run = None
                  /\ warmup_status[j].last_error = None
            /\ warmup_status[j].last_run = None =>
                  warmup_status[j].last_duration_ms = None
            /\ warmup_status[j].last_run # None =>
                  warmup_status[j].last_duration_ms >= 0)
    /\ [][\A j \in DOMAIN warmup_status :
            /\ warmup_status'[j].last_run # warmup_status[j].last_run =>
                  /\ Leaves(j, "written")
                  /\ warmup_status[j].status = "running"
                  /\ warmup_status'[j].status = "idle"
                  /\ warmup_status'[j].last_run = isoformat(orch[j].run)
            /\ Leaves(j, "written") =>
                  /\ warmup_status'[j].status = "idle"
                  /\ warmup_status'[j].last_duration_ms = worker[j].duration_ms
            /\ ~Leaves(j, "written") =>
                  warmup_status'[j].last_duration_ms = warmup_status[j].last_duration_ms
            /\ (Leaves(j, "fetching") /\ orch[j].phase = "raised") =>
                  /\ warmup_status'[j].status = "error"
                  /\ warmup_status'[j].last_run = warmup_status[j].last_run]_vars

\* C36 witness: a job's tick succeeded, as the second orchestration run, and
\* its next tick has failed: its status is error, and last_run and
\* last_duration_ms are those of the successful tick, whose aggregate is cached.
C36_Witness ==
    \E j \in DOMAIN warmup_status :
        /\ warmup_status[j].status = "error"
        /\ warmup_status[j].last_error = str_of("OSError: Too many open files")
        /\ warmup_status[j].last_run = isoformat(2)
        /\ warmup_status[j].last_duration_ms = worker[j].duration_ms
        /\ worker[j].pc = "sleep"
        /\ JobKey(j) \in DOMAIN cache
        /\ RunOf(cache[JobKey(j)].sections) = 2

====
